---- MODULE Spec2Model ----
(***************************************************************************)
(* Model of poncho_package_run (src/poncho/src/poncho_package_run): the    *)
(* locked unpack-execute runner.  Several invocations of the script run    *)
(* concurrently against a shared file system.  Each invocation is a        *)
(* process whose program counter follows the script from parse_arguments   *)
(* to its exit; the file system holds, per directory, what has been        *)
(* unpacked into it, the sentinel file and the flock(1) lock.              *)
(***************************************************************************)
EXTENDS Integers, FiniteSets, Sequences, TLC

(* ------------------------------ bounds --------------------------------- *)
\* number of runner invocations
NumProcs == 2
\* number of directories a caller can name with --unpack-to / --environment
NumDirs == 2
\* largest --wait-for-lock value given on a command line
MaxWait == 1
\* the clocks of the model saturate here
MaxTime == 2

(* ------------------------- program constants --------------------------- *)
\* LOCK_WAIT=300
DefaultLockWait == 300
\* flock -E 222
LockConflictStatus == 222

Procs == 1..NumProcs

(* ------------------------------- paths --------------------------------- *)
\* the empty string: option not given
NoPath == <<"none", 0>>
\* a tar file holding a conda environment
Archive == <<"tar", 0>>
\* a path that exists and is a regular file, not an archive
FilePath == <<"file", 0>>
ExplicitDirs == {<<"dir", k>> : k \in 1..NumDirs}
\* the directory $(mktemp -d) gives invocation i: fresh and private
TmpDir(i) == <<"tmp", i>>
Dirs == ExplicitDirs \cup {TmpDir(i) : i \in Procs}

\* values of -e, -u, -w and the command's own exit code
EnvRefs == {NoPath, Archive} \cup ExplicitDirs
UnpackRefs == {NoPath, FilePath} \cup ExplicitDirs
LockWaits == (0..MaxWait) \cup {DefaultLockWait}
CmdCodes == {0, 1, 3}

Contents == {"absent", "empty", "partial", "extracted", "relocating", "relocated"}

Min(a, b) == IF a < b THEN a ELSE b

\* the shell variables of an invocation before parse_arguments has run
InitSh == [ENV_NAME |-> NoPath, UNPACK_TO |-> NoPath, LOCK_WAIT |-> DefaultLockWait,
           ENV_NAME_IS_DIR |-> FALSE, UNPACK_IS_TMP |-> FALSE]

VARIABLES
    pc,              \* where each invocation is in the script
    sh,              \* its shell variables; they go when the process goes
    target,          \* the directory it resolved, kept for the record
    UNTAR_SCRIPT,    \* its temporary script file exists
    exitCode,        \* exit status of a finished invocation, -1 while running
    reason,          \* which exit path was taken
    content,         \* per directory: what the file system holds there
    marker,          \* per directory: .poncho_package_run_expanded exists
    lock,            \* per directory: the invocation whose flock holds it
    elapsed,         \* time spent waiting for, then holding, the lock
    did,             \* phases each invocation has performed
    hookArg,         \* argument poncho/set_env was sourced with
    ranOn,           \* what the target held when the command was run
    cmdStatus,       \* exit status of the command, -1 if it was not run
    bundled          \* the archive carries poncho/set_env

(* ------------------- poncho_package_create: its data ------------------- *)
\* longest packages list and pip list of a specification file
MaxDeps == 2
\* most entries of the git section, and of the http section
MaxFetch == 2

\* A string is the sequence of its characters.
VersionChars == {"!", "~", "=", "<", ">"}
\* re.sub("[!~=<>].*$", "", dep): cut at the first version character
only_name(dep) ==
    LET cut == {k \in 1..Len(dep) : dep[k] \in VersionChars}
    IN  IF cut = {} THEN dep
        ELSE SubSeq(dep, 1, (CHOOSE k \in cut : \A m \in cut : k <= m) - 1)

Range(f) == {f[k] : k \in DOMAIN f}
SeqsUpTo(S, n) == UNION {[1..k -> S] : k \in 0..n}
NoRepeat(f) == \A j, k \in DOMAIN f : j # k => f[j] # f[k]
\* list(a_set): the elements in some order
Orders(S) == {f \in [1..Cardinality(S) -> S] : NoRepeat(f)}

\* constraint strings a specification file may list
CondaStrs == {<<"a", "=", "1">>, <<"a", ">", "=", "2">>, <<"b">>,
              <<"a", "b", "<", "3">>}
PipStrs == {<<"a", "=", "=", "1">>, <<"c">>, <<"b", "~", "=", "1">>}
\* what `pip list --editable` may report: package name and location
LocalNames == {<<"a">>, <<"c">>}
LocalPaths == {"/src/p", "/src/q"}
LocalPips == UNION {[D -> LocalPaths] : D \in SUBSET LocalNames}
NoChannels == <<>>
DefaultChannels == <<"conda-forge", "defaults">>
GivenChannels == <<"bioconda">>

\* names of git and http entries, and the entries
FetchNames == {"x", "y"}
GitEntries == [name : FetchNames, remote : BOOLEAN]
HttpEntries == [name : FetchNames, type : {"tar", "none"},
                compression : {"gzip", "none"}, url : BOOLEAN]
\* a JSON object has each key once
FetchLists(E) == {f \in SeqsUpTo(E, MaxFetch) :
                    \A j, k \in DOMAIN f : j # k => f[j].name # f[k].name}

NoSpec == [name |-> "none", channels |-> <<>>, dependencies |-> <<>>,
           pip |-> <<>>, pip_local |-> <<>>]
NoArchive == [written |-> FALSE, files |-> {}, set_env |-> <<>>]

VARIABLES
    ppc,             \* where pack_env is
    poncho_spec,     \* the specification file as json.load returns it
    local_pip_pkgs,  \* editable installs: name -> location
    conda_spec,      \* what create_conda_spec returned
    env_dir,         \* files and directories in the temporary directory
    set_env,         \* lines of env_dir/poncho/set_env
    fetched,         \* entries of the section at hand already gone through
    installed,       \* pip_local packages installed into the environment
    output           \* the archive conda_pack wrote

pvars == <<ppc, poncho_spec, local_pip_pkgs, conda_spec, env_dir, set_env,
           fetched, installed, output>>

\* pack_env is not running
PackIdle ==
    /\ ppc = "idle"
    /\ poncho_spec = [conda |-> FALSE, channels |-> NoChannels, packages |-> <<>>,
                      pip |-> <<>>, git |-> <<>>, http |-> <<>>]
    /\ local_pip_pkgs = <<>>
    /\ conda_spec = NoSpec
    /\ env_dir = {}
    /\ set_env = <<>>
    /\ fetched = [git |-> 0, http |-> 0]
    /\ installed = {}
    /\ output = NoArchive

(* ---------------- the import scanner and resolver: data ---------------- *)
\* most source units on a command line, most statements in a module body
MaxUnits == 2
MaxBody == 2

\* identifiers and package names are strings; a dotted module name is the
\* sequence of its components
IdA == <<"a">>
IdB == <<"b">>

\* a syntax node as the ast module gives it
Node(kind, name, module, level, body) ==
    [kind |-> kind, name |-> name, module |-> module, level |-> level, body |-> body]
\* import a / from b.a import x / from . import x
Leaves == {Node("Import", "", <<IdA>>, 0, <<>>),
           Node("ImportFrom", "", <<IdB, IdA>>, 0, <<>>),
           Node("ImportFrom", "", <<>>, 1, <<>>)}
\* a block of the universe holds no statement or one
Block(S) == {<<>>} \cup {<<x>> : x \in S}
\* def f(): <block> / if ...: <block>
Compound(S) == {Node("FunctionDef", "f", <<>>, 0, b) : b \in Block(S)}
                 \cup {Node("If", "", <<>>, 0, b) : b \in Block(S)}
Stmts == Leaves \cup Compound(Leaves \cup Compound(Leaves))
Modules == {Node("Module", "", <<>>, 0, b) : b \in SeqsUpTo(Stmts, MaxBody)}
NoCode == Node("none", "", <<>>, 0, <<>>)
\* --toplevel, --function f, --function g, or neither
NoFunction == ""
Scopes == {[toplevel |-> TRUE, function |-> NoFunction],
           [toplevel |-> FALSE, function |-> "f"],
           [toplevel |-> FALSE, function |-> "g"],
           [toplevel |-> FALSE, function |-> NoFunction]}

VARIABLES
    apc,             \* where the analyzer's main program is
    args,            \* the scope selector of the command line
    units,           \* source units of the command line not yet read
    code_ast,        \* `code`, the syntax tree of the unit read last
    imports,         \* identifiers collected so far, a list
    raised           \* the exception that ended the program, if any

\* sys.builtin_module_names, and package names of the environment
IdSys == <<"s", "y", "s">>
Builtins == {IdSys}
PkgX == <<"x">>
PkgAB == <<"a", "b">>
PkgPython == <<"p", "y", "t", "h", "o", "n">>
PkgPip == <<"p", "i", "p">>
\* what `conda env export` may list, name=version and name==version
CondaMaster == <<IdA \o <<"=", "1">>, PkgAB \o <<"=", "1">>, PkgX \o <<"=", "1">>,
                 PkgPython \o <<"=", "3">>>>
PipMaster == <<IdA \o <<"=", "=", "2">>, PkgX \o <<"=", "=", "2">>>>
Sublists(master) ==
    {LET In(x) == x \in S IN SelectSeq(master, In) : S \in SUBSET Range(master)}
\* the characters of these strings in ASCII order
Chars == <<"1", "2", "3", "=", "a", "b", "h", "i", "n", "o", "p", "s", "t", "x", "y">>

VARIABLES
    overrides,       \* --pkg-mapping: identifier -> package name
    conda_env,       \* `conda env export`: the conda dependencies, a list
    pip_env,         \* and its pip dependencies, a list
    importable,      \* identifiers importlib.import_module can import
    PKG_MAP,         \* identifier (by its module file) -> owning package
    conda_pkgs,      \* resolved conda constraint strings
    pip_pkgs,        \* resolved pip constraint strings
    todo,            \* identifiers not searched yet, extras not chosen yet
    extra            \* --extra-pkg: packages to include as well

\* the state of export_env
evars == <<overrides, conda_env, pip_env, importable, PKG_MAP, conda_pkgs,
           pip_pkgs, todo, extra>>
\* the scan loop of the main program
svars == <<args, units, code_ast, imports>>
avars == <<apc, raised, svars, evars>>

\* the analyzer is not running
ScanIdle ==
    /\ apc = "idle"
    /\ args = [toplevel |-> FALSE, function |-> NoFunction]
    /\ units = 0
    /\ code_ast = NoCode
    /\ imports = <<>>
    /\ raised = "none"
    /\ overrides = <<>>
    /\ conda_env = <<>>
    /\ pip_env = <<>>
    /\ importable = {}
    /\ PKG_MAP = <<>>
    /\ conda_pkgs = {}
    /\ pip_pkgs = {}
    /\ todo = [search |-> {}, choose |-> {}]
    /\ extra = {}

vars == <<pc, sh, target, UNTAR_SCRIPT, exitCode, reason, content, marker,
          lock, elapsed, did, hookArg, ranOn, cmdStatus, bundled, pvars, avars>>
\* the runner's variables, which the packager does not touch
rvars == <<pc, sh, target, UNTAR_SCRIPT, exitCode, reason, content, marker,
           lock, elapsed, did, hookArg, ranOn, cmdStatus, bundled>>

LockedPcs == {"check_marker", "extract", "relocate", "write_marker"}
ReaderPcs == {"activate", "hooks", "execute"}

\* the runner's state when no invocation has started
InitRunner ==
    /\ pc = [i \in Procs |-> "start"]
    /\ sh = [i \in Procs |-> InitSh]
    /\ target = [i \in Procs |-> NoPath]
    /\ UNTAR_SCRIPT = [i \in Procs |-> FALSE]
    /\ exitCode = [i \in Procs |-> -1]
    /\ reason = [i \in Procs |-> "running"]
    /\ content = [d \in Dirs |-> "absent"]
    /\ marker = [d \in Dirs |-> FALSE]
    /\ lock = [d \in Dirs |-> {}]
    /\ elapsed = [i \in Procs |-> 0]
    /\ did = [i \in Procs |-> {}]
    /\ hookArg = [i \in Procs |-> NoPath]
    /\ ranOn = [i \in Procs |-> "none"]
    /\ cmdStatus = [i \in Procs |-> -1]
    /\ bundled \in BOOLEAN

Init ==
    /\ InitRunner
    /\ PackIdle
    /\ ScanIdle

(* ------------------------- cleanup and exit ---------------------------- *)
\* mutant: the target is removed whether or not it is a temporary one
cleanup_Always(i) ==
    /\ content' = IF sh[i].UNPACK_TO \in Dirs
                  THEN [content EXCEPT ![sh[i].UNPACK_TO] = "absent"]
                  ELSE content
    /\ marker' = IF sh[i].UNPACK_TO \in Dirs
                 THEN [marker EXCEPT ![sh[i].UNPACK_TO] = FALSE]
                 ELSE marker
    /\ UNTAR_SCRIPT' = [UNTAR_SCRIPT EXCEPT ![i] = FALSE]

\* mutant: the trap removes a temporary target but leaves the script file
cleanup_KeepScript(i) ==
    /\ content' = IF sh[i].UNPACK_IS_TMP
                  THEN [content EXCEPT ![sh[i].UNPACK_TO] = "absent"]
                  ELSE content
    /\ marker' = IF sh[i].UNPACK_IS_TMP
                 THEN [marker EXCEPT ![sh[i].UNPACK_TO] = FALSE]
                 ELSE marker
    /\ UNCHANGED UNTAR_SCRIPT

\* mutant: the trap removes the target of every archive-mode invocation
cleanup_ArchiveTarget(i) ==
    /\ content' = IF sh[i].UNPACK_TO \in Dirs /\ ~sh[i].ENV_NAME_IS_DIR
                  THEN [content EXCEPT ![sh[i].UNPACK_TO] = "absent"]
                  ELSE content
    /\ marker' = IF sh[i].UNPACK_TO \in Dirs /\ ~sh[i].ENV_NAME_IS_DIR
                 THEN [marker EXCEPT ![sh[i].UNPACK_TO] = FALSE]
                 ELSE marker
    /\ UNTAR_SCRIPT' = [UNTAR_SCRIPT EXCEPT ![i] = FALSE]

\* function cleanup, the EXIT trap: rm -rf a temporary target, rm -f the script
cleanup(i) ==
    /\ content' = IF sh[i].UNPACK_IS_TMP
                  THEN [content EXCEPT ![sh[i].UNPACK_TO] = "absent"]
                  ELSE content
    /\ marker' = IF sh[i].UNPACK_IS_TMP
                 THEN [marker EXCEPT ![sh[i].UNPACK_TO] = FALSE]
                 ELSE marker
    /\ UNTAR_SCRIPT' = [UNTAR_SCRIPT EXCEPT ![i] = FALSE]

\* the process is gone
Gone(i, code, why) ==
    /\ pc' = [pc EXCEPT ![i] = "exited"]
    /\ exitCode' = [exitCode EXCEPT ![i] = code]
    /\ reason' = [reason EXCEPT ![i] = why]
    /\ sh' = [sh EXCEPT ![i] = InitSh]
    /\ elapsed' = [elapsed EXCEPT ![i] = IF why = "locktimeout" THEN @ ELSE 0]

\* exit <code>: the trap runs, then the process is gone
Exit(i, code, why) ==
    /\ Gone(i, code, why)
    /\ cleanup(i)

(* --------------------------- parse_arguments --------------------------- *)
\* Lines 78-137 and 158.  Invocations are numbered in the order they start.
\* e, u, w: the values of -e, -u, -w; command: a command line follows.
ParseArguments(i, e, u, w, command) ==
    /\ pc[i] = "start"
    /\ \A j \in Procs : j < i => pc[j] # "start"
    /\ IF e = NoPath \/ ~command
       THEN Exit(i, 1, "badargs")
       ELSE /\ sh' = [sh EXCEPT ![i].ENV_NAME = e, ![i].UNPACK_TO = u,
                                ![i].LOCK_WAIT = w]
            /\ pc' = [pc EXCEPT ![i] = "acquire_target"]
            /\ UNCHANGED <<exitCode, reason, elapsed, content, marker, UNTAR_SCRIPT>>
    /\ UNCHANGED <<target, lock, did, hookArg, ranOn, cmdStatus, bundled, pvars, avars>>

(* ---------------- target directory and the untar script ---------------- *)
\* [[ -d "${ENV_NAME}" ]]
IsDirectory(p) == p \in Dirs /\ content[p] # "absent"

\* mutant: a given --unpack-to is used even when --environment is a directory
AcquireTarget_HonourUnpackTo(i) ==
    /\ pc[i] = "acquire_target"
    /\ LET isdir == IsDirectory(sh[i].ENV_NAME)
           given == IF isdir /\ sh[i].UNPACK_TO = NoPath
                    THEN sh[i].ENV_NAME ELSE sh[i].UNPACK_TO
           istmp == given = NoPath
           dir == IF istmp THEN TmpDir(i) ELSE given
       IN  IF dir = FilePath
           THEN /\ Exit(i, 1, "targetfile")
                /\ UNCHANGED target
           ELSE /\ sh' = [sh EXCEPT ![i].ENV_NAME_IS_DIR = isdir,
                                    ![i].UNPACK_IS_TMP = istmp,
                                    ![i].UNPACK_TO = dir]
                /\ target' = [target EXCEPT ![i] = dir]
                /\ content' = IF content[dir] = "absent"
                              THEN [content EXCEPT ![dir] = "empty"]
                              ELSE content
                /\ UNTAR_SCRIPT' = [UNTAR_SCRIPT EXCEPT ![i] = TRUE]
                /\ pc' = [pc EXCEPT ![i] = IF isdir THEN "activate" ELSE "wait_lock"]
                /\ UNCHANGED <<exitCode, reason, elapsed, marker>>
    /\ UNCHANGED <<lock, did, hookArg, ranOn, cmdStatus, bundled, pvars, avars>>

\* mutant: an --unpack-to that is a file is set aside and a temporary
\* directory is used in its place
AcquireTarget_FileToTmp(i) ==
    /\ pc[i] = "acquire_target"
    /\ LET isdir == IsDirectory(sh[i].ENV_NAME)
           given == IF isdir THEN sh[i].ENV_NAME ELSE sh[i].UNPACK_TO
           istmp == given \in {NoPath, FilePath}
           dir == IF istmp THEN TmpDir(i) ELSE given
       IN  /\ sh' = [sh EXCEPT ![i].ENV_NAME_IS_DIR = isdir,
                               ![i].UNPACK_IS_TMP = istmp,
                               ![i].UNPACK_TO = dir]
           /\ target' = [target EXCEPT ![i] = dir]
           /\ content' = IF content[dir] = "absent"
                         THEN [content EXCEPT ![dir] = "empty"]
                         ELSE content
           /\ UNTAR_SCRIPT' = [UNTAR_SCRIPT EXCEPT ![i] = TRUE]
           /\ pc' = [pc EXCEPT ![i] = IF isdir THEN "activate" ELSE "wait_lock"]
           /\ UNCHANGED <<exitCode, reason, elapsed, marker>>
    /\ UNCHANGED <<lock, did, hookArg, ranOn, cmdStatus, bundled, pvars, avars>>

\* Lines 164-221.  Every path of the model is already canonical, so realpath
\* leaves it as it is.
AcquireTarget(i) ==
    /\ pc[i] = "acquire_target"
    /\ LET isdir == IsDirectory(sh[i].ENV_NAME)
           given == IF isdir THEN sh[i].ENV_NAME ELSE sh[i].UNPACK_TO
           istmp == given = NoPath
           dir == IF istmp THEN TmpDir(i) ELSE given
       IN  IF dir = FilePath
           THEN /\ Exit(i, 1, "targetfile")
                /\ UNCHANGED target
           ELSE /\ sh' = [sh EXCEPT ![i].ENV_NAME_IS_DIR = isdir,
                                    ![i].UNPACK_IS_TMP = istmp,
                                    ![i].UNPACK_TO = dir]
                /\ target' = [target EXCEPT ![i] = dir]
                /\ content' = IF content[dir] = "absent"
                              THEN [content EXCEPT ![dir] = "empty"]
                              ELSE content
                /\ UNTAR_SCRIPT' = [UNTAR_SCRIPT EXCEPT ![i] = TRUE]
                /\ pc' = [pc EXCEPT ![i] = IF isdir THEN "activate" ELSE "wait_lock"]
                /\ UNCHANGED <<exitCode, reason, elapsed, marker>>
    /\ UNCHANGED <<lock, did, hookArg, ranOn, cmdStatus, bundled, pvars, avars>>

(* ------------------------------ flock ---------------------------------- *)
\* mutant: a failed untar script sends the runner back to flock
AfterFlock_Retry(i, status, why) ==
    IF status # 0 /\ status # LockConflictStatus
    THEN /\ pc' = [pc EXCEPT ![i] = "wait_lock"]
         /\ elapsed' = [elapsed EXCEPT ![i] = 0]
         /\ UNCHANGED <<sh, exitCode, reason, content, marker, UNTAR_SCRIPT>>
    ELSE IF status # 0
    THEN Exit(i, 1, "locktimeout")
    ELSE /\ pc' = [pc EXCEPT ![i] = "activate"]
         /\ elapsed' = [elapsed EXCEPT ![i] = 0]
         /\ UNCHANGED <<sh, exitCode, reason, content, UNTAR_SCRIPT>>

\* mutant: the runner exits with flock's status instead of 1
AfterFlock_PropagateStatus(i, status, why) ==
    IF status # 0
    THEN Exit(i, status, IF status = LockConflictStatus THEN "locktimeout" ELSE why)
    ELSE /\ pc' = [pc EXCEPT ![i] = "activate"]
         /\ elapsed' = [elapsed EXCEPT ![i] = 0]
         /\ UNCHANGED <<sh, exitCode, reason, content, UNTAR_SCRIPT>>

\* Lines 227-238: the script looks at flock's exit status.
AfterFlock(i, status, why) ==
    IF status # 0
    THEN Exit(i, 1, IF status = LockConflictStatus THEN "locktimeout" ELSE why)
    ELSE /\ pc' = [pc EXCEPT ![i] = "activate"]
         /\ elapsed' = [elapsed EXCEPT ![i] = 0]
         /\ UNCHANGED <<sh, exitCode, reason, content, UNTAR_SCRIPT>>

\* mutant: the untar script is started without the lock being free
AcquireLock_NoLock(i) ==
    /\ pc[i] = "wait_lock"
    /\ lock' = [lock EXCEPT ![sh[i].UNPACK_TO] = @ \cup {i}]
    /\ pc' = [pc EXCEPT ![i] = "check_marker"]
    /\ elapsed' = [elapsed EXCEPT ![i] = 0]
    /\ did' = [did EXCEPT ![i] = @ \cup {"lock"}]
    /\ UNCHANGED <<sh, target, UNTAR_SCRIPT, exitCode, reason, content, marker,
                   hookArg, ranOn, cmdStatus, bundled, pvars, avars>>

\* flock gets the lock on the target directory and starts the untar script
AcquireLock(i) ==
    /\ pc[i] = "wait_lock"
    /\ lock[sh[i].UNPACK_TO] = {}
    /\ lock' = [lock EXCEPT ![sh[i].UNPACK_TO] = @ \cup {i}]
    /\ pc' = [pc EXCEPT ![i] = "check_marker"]
    /\ elapsed' = [elapsed EXCEPT ![i] = 0]
    /\ did' = [did EXCEPT ![i] = @ \cup {"lock"}]
    /\ UNCHANGED <<sh, target, UNTAR_SCRIPT, exitCode, reason, content, marker,
                   hookArg, ranOn, cmdStatus, bundled, pvars, avars>>

\* mutant: flock -n, the wait is not honoured
LockTimeout_NoWait(i) ==
    /\ pc[i] = "wait_lock"
    /\ lock[sh[i].UNPACK_TO] # {}
    /\ AfterFlock(i, LockConflictStatus, "untar")
    /\ UNCHANGED <<target, lock, did, hookArg, ranOn, cmdStatus, bundled, pvars, avars>>

\* flock -w: the lock is still held by another after LOCK_WAIT seconds
LockTimeout(i) ==
    /\ pc[i] = "wait_lock"
    /\ lock[sh[i].UNPACK_TO] # {}
    /\ elapsed[i] >= sh[i].LOCK_WAIT
    /\ AfterFlock(i, LockConflictStatus, "untar")
    /\ UNCHANGED <<target, lock, did, hookArg, ranOn, cmdStatus, bundled, pvars, avars>>

\* mutant: the lock is given back only when the untar script succeeded
ReleaseLock_KeepOnFailure(i, status, why) ==
    /\ lock' = IF status = 0 THEN [lock EXCEPT ![sh[i].UNPACK_TO] = @ \ {i}] ELSE lock
    /\ AfterFlock(i, status, why)

\* the untar script has ended with `status`: flock closes the lock file and
\* returns that status to the runner
ReleaseLock(i, status, why) ==
    /\ lock' = [lock EXCEPT ![sh[i].UNPACK_TO] = @ \ {i}]
    /\ AfterFlock(i, status, why)

(* -------------------------- the untar script --------------------------- *)
\* mutant: the sentinel is not looked at, every lock holder unpacks
CheckMarker_NoSkip(i) ==
    /\ pc[i] = "check_marker"
    /\ pc' = [pc EXCEPT ![i] = "extract"]
    /\ did' = [did EXCEPT ![i] = @ \cup {"extract"}]
    /\ UNCHANGED <<sh, lock, elapsed, exitCode, reason, content, marker, UNTAR_SCRIPT,
                   target, hookArg, ranOn, cmdStatus, bundled, pvars, avars>>

\* if [[ ! -e .poncho_package_run_expanded ]] ... else ... fi; exit 0
CheckMarker(i) ==
    /\ pc[i] = "check_marker"
    /\ IF marker[sh[i].UNPACK_TO]
       THEN /\ ReleaseLock(i, 0, "untar")
            /\ UNCHANGED <<did, marker>>
       ELSE /\ pc' = [pc EXCEPT ![i] = "extract"]
            /\ did' = [did EXCEPT ![i] = @ \cup {"extract"}]
            /\ UNCHANGED <<sh, lock, elapsed, exitCode, reason, content, marker,
                           UNTAR_SCRIPT>>
    /\ UNCHANGED <<target, hookArg, ranOn, cmdStatus, bundled, pvars, avars>>

\* tar -xf is writing files into the target
ExtractWrite(i) ==
    /\ pc[i] = "extract"
    /\ sh[i].ENV_NAME = Archive
    /\ content[sh[i].UNPACK_TO] # "partial"
    /\ content' = [content EXCEPT ![sh[i].UNPACK_TO] = "partial"]
    /\ UNCHANGED <<pc, sh, target, UNTAR_SCRIPT, exitCode, reason, marker, lock,
                   elapsed, did, hookArg, ranOn, cmdStatus, bundled, pvars, avars>>

\* mutant: the untar script writes the sentinel right after tar, without
\* running conda-unpack
ExtractOK_SkipRelocate(i) ==
    /\ pc[i] = "extract"
    /\ sh[i].ENV_NAME = Archive
    /\ content' = [content EXCEPT ![sh[i].UNPACK_TO] = "extracted"]
    /\ pc' = [pc EXCEPT ![i] = "write_marker"]
    /\ did' = [did EXCEPT ![i] = @ \cup {"relocate"}]
    /\ UNCHANGED <<sh, target, UNTAR_SCRIPT, exitCode, reason, marker, lock,
                   elapsed, hookArg, ranOn, cmdStatus, bundled, pvars, avars>>

\* tar -xf succeeded
ExtractOK(i) ==
    /\ pc[i] = "extract"
    /\ sh[i].ENV_NAME = Archive
    /\ content' = [content EXCEPT ![sh[i].UNPACK_TO] = "extracted"]
    /\ pc' = [pc EXCEPT ![i] = "relocate"]
    /\ did' = [did EXCEPT ![i] = @ \cup {"relocate"}]
    /\ UNCHANGED <<sh, target, UNTAR_SCRIPT, exitCode, reason, marker, lock,
                   elapsed, hookArg, ranOn, cmdStatus, bundled, pvars, avars>>

\* mutant: the `exit 1` after a failed tar is missing and the script ends 0
ExtractFail_Continue(i) ==
    /\ pc[i] = "extract"
    /\ ReleaseLock(i, 0, "untar")
    /\ UNCHANGED <<marker, target, did, hookArg, ranOn, cmdStatus, bundled, pvars, avars>>

\* mutant: the `exit 1` after a failed tar is missing and the script goes on
\* to conda-unpack
ExtractFail_Relocate(i) ==
    /\ pc[i] = "extract"
    /\ pc' = [pc EXCEPT ![i] = "relocate"]
    /\ did' = [did EXCEPT ![i] = @ \cup {"relocate"}]
    /\ UNCHANGED <<sh, target, UNTAR_SCRIPT, exitCode, reason, content, marker, lock,
                   elapsed, hookArg, ranOn, cmdStatus, bundled, pvars, avars>>

\* tar -xf failed: errmsg; exit 1
ExtractFail(i) ==
    /\ pc[i] = "extract"
    /\ ReleaseLock(i, 1, "extract")
    /\ UNCHANGED <<target, did, hookArg, ranOn, cmdStatus, bundled, pvars, avars>>

\* bin/conda-unpack is rewriting prefixes
RelocateWrite(i) ==
    /\ pc[i] = "relocate"
    /\ content[sh[i].UNPACK_TO] # "relocating"
    /\ content' = [content EXCEPT ![sh[i].UNPACK_TO] = "relocating"]
    /\ UNCHANGED <<pc, sh, target, UNTAR_SCRIPT, exitCode, reason, marker, lock,
                   elapsed, did, hookArg, ranOn, cmdStatus, bundled, pvars, avars>>

\* bin/conda-unpack succeeded
RelocateOK(i) ==
    /\ pc[i] = "relocate"
    /\ content' = [content EXCEPT ![sh[i].UNPACK_TO] = "relocated"]
    /\ pc' = [pc EXCEPT ![i] = "write_marker"]
    /\ UNCHANGED <<sh, target, UNTAR_SCRIPT, exitCode, reason, marker, lock,
                   elapsed, did, hookArg, ranOn, cmdStatus, bundled, pvars, avars>>

\* mutant: the `exit 1` after a failed conda-unpack is missing
RelocateFail_NoExit(i) ==
    /\ pc[i] = "relocate"
    /\ pc' = [pc EXCEPT ![i] = "write_marker"]
    /\ UNCHANGED <<sh, target, UNTAR_SCRIPT, exitCode, reason, content, marker, lock,
                   elapsed, did, hookArg, ranOn, cmdStatus, bundled, pvars, avars>>

\* bin/conda-unpack failed: errmsg; exit 1
RelocateFail(i) ==
    /\ pc[i] = "relocate"
    /\ ReleaseLock(i, 1, "relocate")
    /\ UNCHANGED <<target, did, hookArg, ranOn, cmdStatus, bundled, pvars, avars>>

\* /bin/date > .poncho_package_run_expanded; exit 0
WriteMarker(i) ==
    /\ pc[i] = "write_marker"
    /\ marker' = [marker EXCEPT ![sh[i].UNPACK_TO] = TRUE]
    /\ did' = [did EXCEPT ![i] = @ \cup {"marker"}]
    /\ ReleaseLock(i, 0, "untar")
    /\ UNCHANGED <<target, hookArg, ranOn, cmdStatus, bundled, pvars, avars>>

(* ------------------ activate, set_env, the command --------------------- *)
\* mutant: a failed activation is reported and the script goes on
Activate_WarnOnly(i, ok) ==
    /\ pc[i] = "activate"
    /\ ok => content[sh[i].UNPACK_TO] \notin {"absent", "empty"}
    /\ pc' = [pc EXCEPT ![i] = "hooks"]
    /\ did' = [did EXCEPT ![i] = IF ok THEN @ \cup {"activate"} ELSE @]
    /\ UNCHANGED <<sh, exitCode, reason, elapsed, content, marker, UNTAR_SCRIPT>>
    /\ UNCHANGED <<target, lock, hookArg, ranOn, cmdStatus, bundled, pvars, avars>>

\* source bin/activate: there is nothing to source in a directory that was
\* never unpacked into, and the script itself may fail
Activate(i, ok) ==
    /\ pc[i] = "activate"
    /\ ok => content[sh[i].UNPACK_TO] \notin {"absent", "empty"}
    /\ IF ok
       THEN /\ pc' = [pc EXCEPT ![i] = "hooks"]
            /\ did' = [did EXCEPT ![i] = @ \cup {"activate"}]
            /\ UNCHANGED <<sh, exitCode, reason, elapsed, content, marker,
                           UNTAR_SCRIPT>>
       ELSE /\ Exit(i, 1, "activate")
            /\ UNCHANGED did
    /\ UNCHANGED <<target, lock, hookArg, ranOn, cmdStatus, bundled, pvars, avars>>

\* [[ -e "${UNPACK_TO}/poncho/set_env" ]]: in a half-written directory the
\* file may or may not be there yet
HookFile(d) ==
    CASE content[d] \in {"extracted", "relocating", "relocated"} -> {bundled}
      [] content[d] = "partial" -> {bundled, FALSE}
      [] OTHER -> {FALSE}

\* mutant: the hook script is sourced without the target as its argument
ApplyHooks_NoArgument(i) ==
    /\ pc[i] = "hooks"
    /\ \E present \in HookFile(sh[i].UNPACK_TO) :
        /\ hookArg' = [hookArg EXCEPT ![i] = NoPath]
        /\ did' = [did EXCEPT ![i] = IF present THEN @ \cup {"hooks"} ELSE @]
    /\ pc' = [pc EXCEPT ![i] = "execute"]
    /\ UNCHANGED <<sh, target, UNTAR_SCRIPT, exitCode, reason, content, marker,
                   lock, elapsed, ranOn, cmdStatus, bundled, pvars, avars>>

\* Lines 250-255
ApplyHooks(i) ==
    /\ pc[i] = "hooks"
    /\ \E present \in HookFile(sh[i].UNPACK_TO) :
        /\ hookArg' = [hookArg EXCEPT ![i] = IF present THEN sh[i].UNPACK_TO ELSE NoPath]
        /\ did' = [did EXCEPT ![i] = IF present THEN @ \cup {"hooks"} ELSE @]
    /\ pc' = [pc EXCEPT ![i] = "execute"]
    /\ UNCHANGED <<sh, target, UNTAR_SCRIPT, exitCode, reason, content, marker,
                   lock, elapsed, ranOn, cmdStatus, bundled, pvars, avars>>

\* mutant: exit 1 for any failing command instead of exit $status
Execute_ExitOne(i) ==
    /\ pc[i] = "execute"
    /\ \E status \in CmdCodes :
        /\ cmdStatus' = [cmdStatus EXCEPT ![i] = status]
        /\ Exit(i, IF status = 0 THEN 0 ELSE 1, "done")
    /\ did' = [did EXCEPT ![i] = @ \cup {"execute"}]
    /\ ranOn' = [ranOn EXCEPT ![i] = content[sh[i].UNPACK_TO]]
    /\ UNCHANGED <<target, lock, hookArg, bundled, pvars, avars>>

\* Lines 257-264: "${@}"; status=$?; exit $status
Execute(i) ==
    /\ pc[i] = "execute"
    /\ \E status \in CmdCodes :
        /\ cmdStatus' = [cmdStatus EXCEPT ![i] = status]
        /\ Exit(i, status, "done")
    /\ did' = [did EXCEPT ![i] = @ \cup {"execute"}]
    /\ ranOn' = [ranOn EXCEPT ![i] = content[sh[i].UNPACK_TO]]
    /\ UNCHANGED <<target, lock, hookArg, bundled, pvars, avars>>

(* ------------------------- the environment ----------------------------- *)
\* The invocation (the script, flock and the untar script under it) is
\* terminated by a signal.  The kernel drops its lock.  SIGTERM lets bash run
\* the EXIT trap, SIGKILL does not.
Kill(i, trap) ==
    /\ pc[i] \notin {"start", "exited"}
    /\ Gone(i, IF trap THEN 143 ELSE 137, "killed")
    /\ lock' = [d \in Dirs |-> lock[d] \ {i}]
    /\ IF trap THEN cleanup(i) ELSE UNCHANGED <<content, marker, UNTAR_SCRIPT>>
    /\ UNCHANGED <<target, did, hookArg, ranOn, cmdStatus, bundled, pvars, avars>>

\* One time unit passes.  flock takes a free lock at once and gives up as
\* soon as its timer runs out, so time does not pass while either is due.
Tick ==
    /\ \A i \in Procs : pc[i] = "wait_lock" =>
            /\ lock[sh[i].UNPACK_TO] # {}
            /\ elapsed[i] < sh[i].LOCK_WAIT
    /\ elapsed' = [i \in Procs |->
                     IF pc[i] \in LockedPcs \cup {"wait_lock"}
                     THEN Min(elapsed[i] + 1, MaxTime)
                     ELSE elapsed[i]]
    /\ UNCHANGED <<pc, sh, target, UNTAR_SCRIPT, exitCode, reason, content, marker,
                   lock, did, hookArg, ranOn, cmdStatus, bundled, pvars, avars>>

Next ==
    \/ \E i \in Procs, e \in EnvRefs, u \in UnpackRefs, w \in LockWaits,
          command \in BOOLEAN : ParseArguments(i, e, u, w, command)
    \/ \E i \in Procs : AcquireTarget(i)
    \/ \E i \in Procs : AcquireLock(i)
    \/ \E i \in Procs : LockTimeout(i)
    \/ \E i \in Procs : CheckMarker(i)
    \/ \E i \in Procs : ExtractWrite(i)
    \/ \E i \in Procs : ExtractOK(i)
    \/ \E i \in Procs : ExtractFail(i)
    \/ \E i \in Procs : RelocateWrite(i)
    \/ \E i \in Procs : RelocateOK(i)
    \/ \E i \in Procs : RelocateFail(i)
    \/ \E i \in Procs : WriteMarker(i)
    \/ \E i \in Procs, ok \in BOOLEAN : Activate(i, ok)
    \/ \E i \in Procs : ApplyHooks(i)
    \/ \E i \in Procs : Execute(i)
    \/ \E i \in Procs, trap \in BOOLEAN : Kill(i, trap)
    \/ Tick

Spec == Init /\ [][Next]_vars

(* ----- N invocations, one fresh explicit target, a valid archive ------- *)
\* Every invocation is given the archive and the same --unpack-to directory;
\* tar, conda-unpack and bin/activate of a valid archive succeed; nothing is
\* killed.  Lock waits are whatever the callers give.
SharedTarget == <<"dir", 1>>

NextValid ==
    \/ \E i \in Procs, w \in LockWaits : ParseArguments(i, Archive, SharedTarget, w, TRUE)
    \/ \E i \in Procs : AcquireTarget(i)
    \/ \E i \in Procs : AcquireLock(i)
    \/ \E i \in Procs : LockTimeout(i)
    \/ \E i \in Procs : CheckMarker(i)
    \/ \E i \in Procs : ExtractWrite(i)
    \/ \E i \in Procs : ExtractOK(i)
    \/ \E i \in Procs : RelocateWrite(i)
    \/ \E i \in Procs : RelocateOK(i)
    \/ \E i \in Procs : WriteMarker(i)
    \/ \E i \in Procs : Activate(i, TRUE)
    \/ \E i \in Procs : ApplyHooks(i)
    \/ \E i \in Procs : Execute(i)
    \/ Tick

SpecValid == Init /\ [][NextValid]_vars

(* ===================== poncho_package_create ========================== *)
\* mutant: a dependency is taken for local only when the whole constraint
\* string is the name of an editable install
kept_WholeString(deps, local) == {d \in Range(deps) : d \notin DOMAIN local}

\* Lines 193-212, the loop run on the conda packages and again on the pip
\* packages: a dependency whose bare name is an editable install is taken out
\* of its list and its name goes to local_reqs.
kept(deps, local) == {d \in Range(deps) : only_name(d) \notin DOMAIN local}
local_reqs(deps, local) == {only_name(d) : d \in Range(deps)} \cap DOMAIN local

\* mutant: the lists of the specification file are filtered as lists, never
\* turned into sets
create_conda_spec_Lists(spec, local) ==
    IF ~spec.conda THEN {}
    ELSE LET reqs == local_reqs(spec.packages, local) \cup local_reqs(spec.pip, local)
             NotLocal(d) == only_name(d) \notin DOMAIN local
         IN  {[name |-> "base",
               channels |-> IF spec.channels = NoChannels
                            THEN DefaultChannels ELSE spec.channels,
               dependencies |-> SelectSeq(spec.packages, NotLocal),
               pip |-> SelectSeq(spec.pip, NotLocal),
               pip_local |-> [n \in reqs |-> local[n]]]}

\* Lines 180-227.  The lists come out of sets, so their order is any order.
\* Without a conda section `dependencies` is still a set on line 214 and
\* .append raises AttributeError: there is no result.
create_conda_spec(spec, local) ==
    IF ~spec.conda THEN {}
    ELSE LET reqs == local_reqs(spec.packages, local) \cup local_reqs(spec.pip, local)
         IN  {[name |-> "base",
               channels |-> IF spec.channels = NoChannels
                            THEN DefaultChannels ELSE spec.channels,
               dependencies |-> d,
               pip |-> q,
               pip_local |-> [n \in reqs |-> local[n]]] :
                 d \in Orders(kept(spec.packages, local)),
                 q \in Orders(kept(spec.pip, local))}

File(n, ext, kind, holds) == [path |-> <<n, ext>>, kind |-> kind, holds |-> holds]
Exists(n) == \E f \in env_dir : f.path = <<n, "">>
\* 'export {}=$1/{}\n'.format(name, name)
ExportLine(n) == [export |-> n, value |-> <<"$1", "/", n>>]

\* An uncaught exception or sys.exit(1) leaves the `with` block of pack_env:
\* the temporary directory goes, conda_pack.pack is never reached.
Abort ==
    /\ ppc' = "failed"
    /\ env_dir' = {}
    /\ set_env' = <<>>
    /\ UNCHANGED <<poncho_spec, local_pip_pkgs, output>>

\* Line 37: conda_spec = create_conda_spec(spec, env_dir, local_pip_pkgs)
CreateCondaSpec ==
    /\ ppc = "spec"
    /\ IF create_conda_spec(poncho_spec, local_pip_pkgs) = {}
       THEN Abort /\ UNCHANGED conda_spec
       ELSE /\ conda_spec' \in create_conda_spec(poncho_spec, local_pip_pkgs)
            /\ env_dir' = env_dir \cup {File("conda_spec", ".yml", "file", "json")}
            /\ ppc' = "git"
            /\ UNCHANGED <<poncho_spec, local_pip_pkgs, set_env, output>>
    /\ UNCHANGED <<fetched, installed, rvars, avars>>

\* Lines 96-123, one turn of the loop of git_data.  An entry without a
\* remote is passed over; `ref` is read and never used.  check_call raises
\* when git clone fails.
GitClone(ok) ==
    /\ ppc = "git"
    /\ fetched.git < Len(poncho_spec.git)
    /\ LET e == poncho_spec.git[fetched.git + 1]
       IN  IF ~e.remote
           THEN /\ fetched' = [fetched EXCEPT !.git = @ + 1]
                /\ UNCHANGED <<ppc, env_dir, set_env, poncho_spec, local_pip_pkgs, output>>
           ELSE IF ok
           THEN /\ env_dir' = env_dir \cup {File(e.name, "", "dir", "clone"),
                                            File("poncho", "", "dir", "")}
                /\ set_env' = Append(set_env, ExportLine(e.name))
                /\ fetched' = [fetched EXCEPT !.git = @ + 1]
                /\ UNCHANGED <<ppc, poncho_spec, local_pip_pkgs, output>>
           ELSE Abort /\ UNCHANGED fetched
    /\ UNCHANGED <<conda_spec, installed, rvars, avars>>

\* git_data returns, http_data starts
GitDone ==
    /\ ppc = "git"
    /\ fetched.git = Len(poncho_spec.git)
    /\ ppc' = "http"
    /\ UNCHANGED <<poncho_spec, local_pip_pkgs, conda_spec, env_dir, set_env,
                   fetched, installed, output, rvars, avars>>

\* Lines 151-170: what one download leaves in the temporary directory
http_files(e) ==
    CASE e.type = "tar" /\ e.compression = "gzip" ->
            {File(e.name, ".tar.gz", "file", "raw"), File(e.name, "", "dir", "tree")}
      [] e.type = "tar" /\ e.compression # "gzip" ->
            {File(e.name, ".tar", "file", "raw"), File(e.name, "", "dir", "tree")}
      [] e.type # "tar" /\ e.compression = "gzip" ->
            {File(e.name, "", "file", "gunzipped")}
      [] OTHER ->
            {File(e.name, "", "file", "raw")}

\* mutant: http_data opens poncho/set_env with 'w'
HttpFetch_Truncate(ok) ==
    /\ ppc = "http"
    /\ fetched.http < Len(poncho_spec.http)
    /\ LET e == poncho_spec.http[fetched.http + 1]
       IN  IF ~e.url
           THEN /\ fetched' = [fetched EXCEPT !.http = @ + 1]
                /\ UNCHANGED <<ppc, env_dir, set_env, poncho_spec, local_pip_pkgs, output>>
           ELSE IF ok /\ ~Exists(e.name)
           THEN /\ env_dir' = env_dir \cup http_files(e)
                                      \cup {File("poncho", "", "dir", "")}
                /\ set_env' = <<ExportLine(e.name)>>
                /\ fetched' = [fetched EXCEPT !.http = @ + 1]
                /\ UNCHANGED <<ppc, poncho_spec, local_pip_pkgs, output>>
           ELSE Abort /\ UNCHANGED fetched
    /\ UNCHANGED <<conda_spec, installed, rvars, avars>>

\* Lines 131-177, one turn of the loop of http_data.  An entry without a url
\* is passed over.  curl, tar or gzip may fail, and os.mkdir, gzip -d and
\* curl --output fail on a name a clone already took: check_call raises.
HttpFetch(ok) ==
    /\ ppc = "http"
    /\ fetched.http < Len(poncho_spec.http)
    /\ LET e == poncho_spec.http[fetched.http + 1]
       IN  IF ~e.url
           THEN /\ fetched' = [fetched EXCEPT !.http = @ + 1]
                /\ UNCHANGED <<ppc, env_dir, set_env, poncho_spec, local_pip_pkgs, output>>
           ELSE IF ok /\ ~Exists(e.name)
           THEN /\ env_dir' = env_dir \cup http_files(e)
                                      \cup {File("poncho", "", "dir", "")}
                /\ set_env' = Append(set_env, ExportLine(e.name))
                /\ fetched' = [fetched EXCEPT !.http = @ + 1]
                /\ UNCHANGED <<ppc, poncho_spec, local_pip_pkgs, output>>
           ELSE Abort /\ UNCHANGED fetched
    /\ UNCHANGED <<conda_spec, installed, rvars, avars>>

\* http_data returns
HttpDone ==
    /\ ppc = "http"
    /\ fetched.http = Len(poncho_spec.http)
    /\ ppc' = "env_create"
    /\ UNCHANGED <<poncho_spec, local_pip_pkgs, conda_spec, env_dir, set_env,
                   fetched, installed, output, rvars, avars>>

\* mutant: a failing conda command is logged and pack_env carries on
EnvCreate_WarnOnly(ok) ==
    /\ ppc = "env_create"
    /\ env_dir' = IF ok THEN env_dir \cup {File("conda-meta", "", "dir", "")}
                  ELSE env_dir
    /\ ppc' = "pip_local"
    /\ UNCHANGED <<poncho_spec, local_pip_pkgs, set_env, output>>
    /\ UNCHANGED <<conda_spec, fetched, installed, rvars, avars>>

\* Lines 44-50 and 66-75: conda env create --file conda_spec.yml; a failing
\* conda command ends in sys.exit(1)
EnvCreate(ok) ==
    /\ ppc = "env_create"
    /\ IF ok
       THEN /\ env_dir' = env_dir \cup {File("conda-meta", "", "dir", "")}
            /\ ppc' = "pip_local"
            /\ UNCHANGED <<poncho_spec, local_pip_pkgs, set_env, output>>
       ELSE Abort
    /\ UNCHANGED <<conda_spec, fetched, installed, rvars, avars>>

\* Lines 53-54 and 126-128: conda run pip install <path>, one turn of the loop
InstallLocalPip(n, ok) ==
    /\ ppc = "pip_local"
    /\ n \in DOMAIN conda_spec.pip_local
    /\ n \notin installed
    /\ IF ok
       THEN /\ installed' = installed \cup {n}
            /\ UNCHANGED <<ppc, poncho_spec, local_pip_pkgs, env_dir, set_env, output>>
       ELSE Abort /\ UNCHANGED installed
    /\ UNCHANGED <<conda_spec, fetched, rvars, avars>>

\* Lines 57-63: conda_pack.pack writes the archive from the temporary
\* directory; then the `with` block ends and the directory goes.
Pack ==
    /\ ppc = "pip_local"
    /\ installed = DOMAIN conda_spec.pip_local
    /\ output' = [written |-> TRUE, files |-> env_dir, set_env |-> set_env]
    /\ ppc' = "done"
    /\ env_dir' = {}
    /\ set_env' = <<>>
    /\ UNCHANGED <<poncho_spec, local_pip_pkgs, conda_spec, fetched, installed, rvars, avars>>

(* ---- create_conda_spec on the specification files of bounded size ----- *)
SynthSpecs ==
    {sp \in [conda : BOOLEAN, channels : {NoChannels, GivenChannels},
             packages : SeqsUpTo(CondaStrs, MaxDeps),
             pip : SeqsUpTo(PipStrs, MaxDeps), git : {<<>>}, http : {<<>>}] :
        ~sp.conda => sp.channels = NoChannels /\ sp.packages = <<>>}

InitSynth ==
    /\ InitRunner /\ ~bundled
    /\ ScanIdle
    /\ ppc = "spec"
    /\ poncho_spec \in SynthSpecs
    /\ local_pip_pkgs \in LocalPips
    /\ conda_spec = NoSpec
    /\ env_dir = {}
    /\ set_env = <<>>
    /\ fetched = [git |-> 0, http |-> 0]
    /\ installed = {}
    /\ output = NoArchive

SpecSynth == InitSynth /\ [][CreateCondaSpec]_vars

(* ------------- pack_env on specification files with fetches ------------ *)
PackSpecs ==
    {sp \in [conda : BOOLEAN, channels : {NoChannels},
             packages : {<<>>, << <<"a", "=", "1">> >>},
             pip : {<<>>, << <<"c">> >>},
             git : FetchLists(GitEntries), http : FetchLists(HttpEntries)] :
        ~sp.conda => sp.packages = <<>>}

InitPack ==
    /\ InitRunner /\ ~bundled
    /\ ScanIdle
    /\ ppc = "spec"
    /\ poncho_spec \in PackSpecs
    /\ local_pip_pkgs = [n \in LocalNames |-> "/src/p"]
    /\ conda_spec = NoSpec
    /\ env_dir = {}
    /\ set_env = <<>>
    /\ fetched = [git |-> 0, http |-> 0]
    /\ installed = {}
    /\ output = NoArchive

NextPack ==
    \/ CreateCondaSpec
    \/ \E ok \in BOOLEAN : GitClone(ok)
    \/ GitDone
    \/ \E ok \in BOOLEAN : HttpFetch(ok)
    \/ HttpDone
    \/ \E ok \in BOOLEAN : EnvCreate(ok)
    \/ \E n \in LocalNames, ok \in BOOLEAN : InstallLocalPip(n, ok)
    \/ Pack

SpecPack == InitPack /\ [][NextPack]_vars

(* ========================= the import scanner ========================== *)
\* pkg.split('.')[0].  The parser gives no module name that starts with a
\* dot, so the raise of strip_dots is never reached.
strip_dots(pkg) == Head(pkg)

\* what a scan function hands back: an exception, None, or a list
Deps(list) == [raised |-> "none", none |-> FALSE, deps |-> list]
Raise(exc) == [raised |-> exc, none |-> FALSE, deps |-> <<>>]
None == [raised |-> "none", none |-> TRUE, deps |-> <<>>]

\* mutant: a relative from-import is read like any other from-import
get_stmt_imports_AnyLevel(stmt) ==
    CASE stmt.kind = "Import" -> Deps(<<strip_dots(stmt.module)>>)
      [] stmt.kind = "ImportFrom" ->
            IF stmt.module = <<>> THEN Deps(<<>>)
            ELSE Deps(<<strip_dots(stmt.module)>>)
      [] OTHER -> Deps(<<>>)

\* Lines 285-294.  An import statement of the universe names one module.
get_stmt_imports(stmt) ==
    CASE stmt.kind = "Import" -> Deps(<<strip_dots(stmt.module)>>)
      [] stmt.kind = "ImportFrom" ->
            IF stmt.level # 0 THEN Raise("ImportError")
            ELSE Deps(<<strip_dots(stmt.module)>>)
      [] OTHER -> Deps(<<>>)

\* deps += get_stmt_imports(stmt) for each node of a list, in order; the
\* first exception ends the loop
RECURSIVE collect(_)
collect(nodes) ==
    IF nodes = <<>> THEN Deps(<<>>)
    ELSE LET first == get_stmt_imports(Head(nodes))
         IN  IF first.raised # "none" THEN first
             ELSE LET rest == collect(Tail(nodes))
                  IN  IF rest.raised # "none" THEN rest
                      ELSE Deps(first.deps \o rest.deps)

\* ast.walk: the node itself, then its descendants breadth first
RECURSIVE walk(_)
walk(queue) ==
    IF queue = <<>> THEN <<>>
    ELSE <<Head(queue)>> \o walk(Tail(queue) \o Head(queue).body)

\* Lines 296-300
analyze_toplevel(module) == collect(module.body)
\* Lines 302-306
analyze_full(module) == collect(walk(<<module>>))
\* Lines 308-311: the first FunctionDef of that name in walk order; the
\* function falls off its end, returning None, when there is none
analyze_function(module, func_name) ==
    LET nodes == walk(<<module>>)
        hits == {k \in DOMAIN nodes : /\ nodes[k].kind = "FunctionDef"
                                      /\ nodes[k].name = func_name}
    IN  IF hits = {} THEN None
        ELSE analyze_full(nodes[CHOOSE k \in hits : \A m \in hits : k <= m])

\* Lines 419-424: the scan function the command line selects
analyze(module, a) ==
    IF a.toplevel THEN analyze_toplevel(module)
    ELSE IF a.function # NoFunction THEN analyze_function(module, a.function)
    ELSE analyze_full(module)

\* Line 418: code = ast.parse(source.read(), filename=filename)
Parse ==
    /\ apc = "parse"
    /\ code_ast' \in Modules
    /\ apc' = "analyze"
    /\ UNCHANGED <<args, units, imports, raised, evars, rvars, pvars>>

\* ast.parse raises SyntaxError
ParseError ==
    /\ apc = "parse"
    /\ apc' = "failed"
    /\ raised' = "SyntaxError"
    /\ UNCHANGED <<svars, evars, rvars, pvars>>

\* Lines 419-424: imports += analyze_...(code); `imports += None` raises
\* TypeError.  After the last unit export_env is called with the list.
Analyze ==
    /\ apc = "analyze"
    /\ LET r == analyze(code_ast, args)
       IN  IF r.raised # "none" \/ r.none
           THEN /\ apc' = "failed"
                /\ raised' = IF r.none THEN "TypeError" ELSE r.raised
                /\ UNCHANGED <<imports, units>>
           ELSE /\ imports' = imports \o r.deps
                /\ units' = units - 1
                /\ apc' = IF units = 1 THEN "export" ELSE "parse"
                /\ UNCHANGED raised
    /\ UNCHANGED <<args, code_ast, evars, rvars, pvars>>

InitScan ==
    /\ InitRunner /\ ~bundled
    /\ PackIdle
    /\ apc = "parse"
    /\ raised = "none"
    /\ args \in Scopes
    /\ units \in 1..MaxUnits
    /\ code_ast = NoCode
    /\ imports = <<>>
    /\ overrides = <<>> /\ conda_env = <<>> /\ pip_env = <<>>
    /\ importable = {} /\ PKG_MAP = <<>>
    /\ conda_pkgs = {} /\ pip_pkgs = {} /\ extra = {}
    /\ todo = [search |-> {}, choose |-> {}]

NextScan ==
    \/ Parse
    \/ ParseError
    \/ Analyze

SpecScan == InitScan /\ [][NextScan]_vars

(* ============================ the resolver ============================= *)
\* a.startswith(p)
StartsWith(a, p) == Len(p) <= Len(a) /\ SubSeq(a, 1, Len(p)) = p
First(list, hits) == list[CHOOSE k \in hits : \A m \in hits : k <= m]

\* mutant: both lists are gone through, an entry of each is taken
choose_dep_BothLists(ce, pe, cp, pp, pkg, required) ==
    LET cm == {k \in DOMAIN ce : StartsWith(ce[k], pkg \o <<"=">>)}
        pm == {k \in DOMAIN pe : StartsWith(pe[k], pkg \o <<"=">>)}
    IN  [raised |-> IF required /\ cm = {} /\ pm = {} THEN "ImportError" ELSE "none",
         conda_pkgs |-> IF cm # {} THEN cp \cup {First(ce, cm)} ELSE cp,
         pip_pkgs |-> IF pm # {} THEN pp \cup {First(pe, pm)} ELSE pp]

\* mutant: the pip list is gone through before the conda list
choose_dep_PipFirst(ce, pe, cp, pp, pkg, required) ==
    LET cm == {k \in DOMAIN ce : StartsWith(ce[k], pkg \o <<"=">>)}
        pm == {k \in DOMAIN pe : StartsWith(pe[k], pkg \o <<"=">>)}
    IN  IF pm # {}
        THEN [raised |-> "none", conda_pkgs |-> cp, pip_pkgs |-> pp \cup {First(pe, pm)}]
        ELSE IF cm # {}
        THEN [raised |-> "none", conda_pkgs |-> cp \cup {First(ce, cm)}, pip_pkgs |-> pp]
        ELSE [raised |-> IF required THEN "ImportError" ELSE "none",
              conda_pkgs |-> cp, pip_pkgs |-> pp]

\* Lines 313-323: the first entry of the conda list that starts with
\* pkg + '=', else the first such entry of the pip list, goes to its set
choose_dep(ce, pe, cp, pp, pkg, required) ==
    LET cm == {k \in DOMAIN ce : StartsWith(ce[k], pkg \o <<"=">>)}
        pm == {k \in DOMAIN pe : StartsWith(pe[k], pkg \o <<"=">>)}
    IN  IF cm # {}
        THEN [raised |-> "none", conda_pkgs |-> cp \cup {First(ce, cm)}, pip_pkgs |-> pp]
        ELSE IF pm # {}
        THEN [raised |-> "none", conda_pkgs |-> cp, pip_pkgs |-> pp \cup {First(pe, pm)}]
        ELSE [raised |-> IF required THEN "ImportError" ELSE "none",
              conda_pkgs |-> cp, pip_pkgs |-> pp]

\* mutant: a package with the literal name is looked for before the overrides
search_pkg_LiteralFirst(ov, ce, pe, cp, pp, pkg) ==
    IF pkg \in Builtins
    THEN [raised |-> "none", conda_pkgs |-> cp, pip_pkgs |-> pp]
    ELSE IF choose_dep(ce, pe, cp, pp, pkg, TRUE).raised = "none"
    THEN choose_dep(ce, pe, cp, pp, pkg, TRUE)
    ELSE IF pkg \in DOMAIN ov
    THEN choose_dep(ce, pe, cp, pp, ov[pkg], TRUE)
    ELSE IF pkg \notin importable
    THEN [raised |-> "ImportError", conda_pkgs |-> cp, pip_pkgs |-> pp]
    ELSE choose_dep(ce, pe, cp, pp,
                    IF pkg \in DOMAIN PKG_MAP THEN PKG_MAP[pkg] ELSE pkg, TRUE)

\* Lines 325-345.  importlib.import_module raises ModuleNotFoundError, an
\* ImportError, for a module it cannot import.
search_pkg(ov, ce, pe, cp, pp, pkg) ==
    IF pkg \in Builtins
    THEN [raised |-> "none", conda_pkgs |-> cp, pip_pkgs |-> pp]
    ELSE IF pkg \in DOMAIN ov
    THEN choose_dep(ce, pe, cp, pp, ov[pkg], TRUE)
    ELSE IF choose_dep(ce, pe, cp, pp, pkg, TRUE).raised = "none"
    THEN choose_dep(ce, pe, cp, pp, pkg, TRUE)
    ELSE IF pkg \notin importable
    THEN [raised |-> "ImportError", conda_pkgs |-> cp, pip_pkgs |-> pp]
    ELSE choose_dep(ce, pe, cp, pp,
                    IF pkg \in DOMAIN PKG_MAP THEN PKG_MAP[pkg] ELSE pkg, TRUE)

\* The name in the message of the ImportError that leaves search_pkg: the
\* argument of the choose_dep call that raised (line 323), or the module
\* importlib could not import (line 344)
unmatched(ov, pkg) ==
    IF pkg \in DOMAIN ov THEN ov[pkg]
    ELSE IF pkg \notin importable THEN pkg
    ELSE IF pkg \in DOMAIN PKG_MAP THEN PKG_MAP[pkg] ELSE pkg

\* sorted(list(a_set)) of strings
Rank(c) == CHOOSE k \in DOMAIN Chars : Chars[k] = c
RECURSIVE Less(_, _)
Less(a, b) ==
    IF b = <<>> THEN FALSE
    ELSE IF a = <<>> THEN TRUE
    ELSE IF Head(a) = Head(b) THEN Less(Tail(a), Tail(b))
    ELSE Rank(Head(a)) < Rank(Head(b))
sorted(S) == CHOOSE f \in Orders(S) : \A j, k \in DOMAIN f : j < k => Less(f[j], f[k])

\* Lines 347-358: export_env is entered; the lists become sets
ExportEnv ==
    /\ apc = "export"
    /\ todo' = [search |-> Range(imports), choose |-> extra]
    /\ conda_pkgs' = {}
    /\ pip_pkgs' = {}
    /\ apc' = "search"
    /\ UNCHANGED <<raised, svars, overrides, conda_env, pip_env, importable,
                   PKG_MAP, extra, rvars, pvars>>

\* Lines 359-360, one turn of `for pkg in imports`, a set: in any order
SearchPkg(pkg) ==
    /\ apc = "search"
    /\ pkg \in todo.search
    /\ LET r == search_pkg(overrides, conda_env, pip_env, conda_pkgs, pip_pkgs, pkg)
       IN  /\ conda_pkgs' = r.conda_pkgs
           /\ pip_pkgs' = r.pip_pkgs
           /\ raised' = r.raised
           /\ apc' = IF r.raised = "none" THEN "search" ELSE "failed"
    /\ todo' = [todo EXCEPT !.search = @ \ {pkg}]
    /\ UNCHANGED <<svars, overrides, conda_env, pip_env, importable, PKG_MAP,
                   extra, rvars, pvars>>

\* Lines 362-363, one turn of `for pkg in extra`
ChooseExtra(pkg) ==
    /\ apc = "search"
    /\ todo.search = {}
    /\ pkg \in todo.choose
    /\ LET r == choose_dep(conda_env, pip_env, conda_pkgs, pip_pkgs, pkg, TRUE)
       IN  /\ conda_pkgs' = r.conda_pkgs
           /\ pip_pkgs' = r.pip_pkgs
           /\ raised' = r.raised
           /\ apc' = IF r.raised = "none" THEN "search" ELSE "failed"
    /\ todo' = [todo EXCEPT !.choose = @ \ {pkg}]
    /\ UNCHANGED <<svars, overrides, conda_env, pip_env, importable, PKG_MAP,
                   extra, rvars, pvars>>

\* Lines 365-377: python and pip are added if the environment has them, and
\* the sets are sorted into lists
Defaults ==
    /\ apc = "search"
    /\ todo.search = {} /\ todo.choose = {}
    /\ LET py == choose_dep(conda_env, pip_env, conda_pkgs, pip_pkgs, PkgPython, FALSE)
           pi == choose_dep(conda_env, pip_env, py.conda_pkgs, py.pip_pkgs, PkgPip, FALSE)
       IN  /\ conda_pkgs' = sorted(pi.conda_pkgs)
           /\ pip_pkgs' = sorted(pi.pip_pkgs)
    /\ apc' = "done"
    /\ UNCHANGED <<raised, svars, overrides, conda_env, pip_env, importable,
                   PKG_MAP, todo, extra, rvars, pvars>>

\* lists of identifiers the scan may have collected, some twice
ImportLists == {<<>>, <<IdA>>, <<IdB>>, <<IdSys>>, <<IdA, IdB>>, <<IdB, IdA, IdB>>,
                <<IdSys, IdA>>, <<IdB, IdSys, IdA>>}
Overrides == UNION {[D -> {PkgX, PkgAB}] : D \in SUBSET {IdA, IdSys}}
FileIndexes == UNION {[D -> {PkgAB}] : D \in SUBSET {IdA, IdB}}

InitResolve ==
    /\ InitRunner /\ ~bundled
    /\ PackIdle
    /\ apc = "export"
    /\ raised = "none"
    /\ args = [toplevel |-> FALSE, function |-> NoFunction]
    /\ units = 0
    /\ code_ast = NoCode
    /\ imports \in ImportLists
    /\ overrides \in Overrides
    /\ conda_env \in Sublists(CondaMaster)
    /\ pip_env \in Sublists(PipMaster)
    /\ importable \in SUBSET {IdA, IdB}
    /\ PKG_MAP \in FileIndexes
    /\ DOMAIN PKG_MAP \subseteq importable
    \* scan_pkgs (264-278) and export_env (350) list the same environment:
    \* a package that owns a file is a package `conda env export` lists
    /\ \A f \in DOMAIN PKG_MAP :
          \E a \in Range(conda_env) \cup Range(pip_env) :
              StartsWith(a, PKG_MAP[f] \o <<"=">>)
    /\ extra \in SUBSET {PkgX}
    /\ conda_pkgs = {} /\ pip_pkgs = {}
    /\ todo = [search |-> {}, choose |-> {}]

NextResolve ==
    \/ ExportEnv
    \/ \E pkg \in {IdA, IdB, IdSys} : SearchPkg(pkg)
    \/ \E pkg \in {PkgX} : ChooseExtra(pkg)
    \/ Defaults

SpecResolve == InitResolve /\ [][NextResolve]_vars

(* ========== the archive pack_env wrote, run by the runner ============== *)
\* bash expands the positional parameter $1 in a line of the sourced script
Expand(value, arg) ==
    [k \in DOMAIN value |-> IF value[k] = "$1" THEN <<arg>> ELSE <<value[k]>>]
\* Line 253 of the runner, source set_env "${UNPACK_TO}": the variables the
\* script's export lines leave in the shell, a later line overwriting an
\* earlier one of the same variable
source_set_env(lines, arg) ==
    [n \in {lines[k].export : k \in DOMAIN lines} |->
        LET last == CHOOSE k \in DOMAIN lines :
                        /\ lines[k].export = n
                        /\ \A m \in DOMAIN lines : lines[m].export = n => m <= k
        IN  Expand(lines[last].value, arg)]

\* specification files with a conda section and fetches only
TripSpecs ==
    {sp \in PackSpecs : /\ sp.conda /\ sp.packages = <<>> /\ sp.pip = <<>>
                        /\ Len(sp.git) + Len(sp.http) <= MaxFetch}

\* the runner is given the archive, which holds poncho/set_env when pack_env
\* fetched something
InitTrip ==
    /\ InitRunner
    /\ ScanIdle
    /\ ppc = "spec"
    /\ poncho_spec \in TripSpecs
    /\ bundled = \/ \E k \in DOMAIN poncho_spec.git : poncho_spec.git[k].remote
                 \/ \E k \in DOMAIN poncho_spec.http : poncho_spec.http[k].url
    /\ local_pip_pkgs = [n \in LocalNames |-> "/src/p"]
    /\ conda_spec = NoSpec
    /\ env_dir = {}
    /\ set_env = <<>>
    /\ fetched = [git |-> 0, http |-> 0]
    /\ installed = {}
    /\ output = NoArchive

\* poncho_package_run -e <output> [-u <u>] <command>, once the archive is
\* written
RunPackage(i, u) ==
    /\ output.written
    /\ ParseArguments(i, Archive, u, DefaultLockWait, TRUE)

\* pack_env, then invocations of the runner on its output, each with a
\* temporary or an explicit target
NextTrip ==
    \/ CreateCondaSpec
    \/ \E ok \in BOOLEAN : GitClone(ok)
    \/ GitDone
    \/ \E ok \in BOOLEAN : HttpFetch(ok)
    \/ HttpDone
    \/ \E ok \in BOOLEAN : EnvCreate(ok)
    \/ Pack
    \/ \E i \in Procs, u \in {NoPath, SharedTarget} : RunPackage(i, u)
    \/ \E i \in Procs : AcquireTarget(i)
    \/ \E i \in Procs : AcquireLock(i)
    \/ \E i \in Procs : CheckMarker(i)
    \/ \E i \in Procs : ExtractWrite(i)
    \/ \E i \in Procs : ExtractOK(i)
    \/ \E i \in Procs : ExtractFail(i)
    \/ \E i \in Procs : RelocateWrite(i)
    \/ \E i \in Procs : RelocateOK(i)
    \/ \E i \in Procs : RelocateFail(i)
    \/ \E i \in Procs : WriteMarker(i)
    \/ \E i \in Procs, ok \in BOOLEAN : Activate(i, ok)
    \/ \E i \in Procs : ApplyHooks(i)
    \/ \E i \in Procs : Execute(i)

SpecTrip == InitTrip /\ [][NextTrip]_vars

(* ======================= properties of the runner ====================== *)
AllExited == \A i \in Procs : pc[i] = "exited"
\* invocations that started tar, and those that wrote the sentinel
Extractors == {i \in Procs : "extract" \in did[i]}
Unpackers == {i \in Procs : {"extract", "relocate", "marker"} \subseteq did[i]}
RanRelocated(i) ==
    /\ reason[i] = "done"
    /\ {"lock", "activate", "execute"} \subseteq did[i]
    /\ ranOn[i] = "relocated"

\* C1 as stated: with N concurrent invocations on one fresh explicit target
\* and a valid archive, exactly one invocation extracts and relocates, every
\* invocation sees the sentinel when it goes on to activate, and all N
\* commands run on a relocated environment.
C1_AllRun ==
    /\ Cardinality(Extractors) <= 1
    /\ \A i \in Procs : pc[i] \in ReaderPcs => marker[SharedTarget]
    /\ AllExited =>
        /\ Cardinality(Unpackers) = 1
        /\ Extractors = Unpackers
        /\ \A i \in Procs : RanRelocated(i)

\* C1 amended: the same, except that an invocation whose lock wait runs out
\* while another holds the lock ends with the lock-timeout error and runs
\* nothing; every other invocation sees the sentinel and runs its command
\* on the relocated environment.
C1_AllRunUnlessTimedOut ==
    /\ Cardinality(Extractors) <= 1
    /\ \A i \in Procs : pc[i] \in ReaderPcs => marker[SharedTarget]
    /\ AllExited =>
        /\ Cardinality(Unpackers) = 1
        /\ Extractors = Unpackers
        /\ \A i \in Procs :
            \/ RanRelocated(i)
            \/ reason[i] = "locktimeout" /\ did[i] = {} /\ i \notin Unpackers

\* every invocation has run its command, one of them after unpacking and
\* the others after finding the sentinel
C1_Witness ==
    /\ AllExited
    /\ \A i \in Procs : RanRelocated(i)
    /\ \E i \in Procs : i \in Unpackers /\ \A j \in Procs \ {i} : "extract" \notin did[j]

\* C2: in every reachable state, a directory that holds the sentinel file
\* holds a completely extracted and relocated environment.
C2_MarkerImpliesRelocated ==
    \A d \in Dirs : marker[d] => content[d] = "relocated"

\* a target where one invocation was killed after tar and before the
\* sentinel, and which now holds the sentinel
C2_Witness ==
    \E d \in ExplicitDirs, i \in Procs :
        /\ marker[d]
        /\ target[i] = d
        /\ reason[i] = "killed"
        /\ "relocate" \in did[i]
        /\ "marker" \notin did[i]

\* invocations inside CheckMarker/Extract/Relocate/WriteMarker on directory d
Inside(d) == {i \in Procs : pc[i] \in LockedPcs /\ sh[i].UNPACK_TO = d}

\* C3: at most one invocation at a time is inside the CheckMarker/Extract/
\* Relocate/WriteMarker sequence of a directory, and an invocation waiting for
\* a directory is held back exactly when someone is inside the sequence of
\* that same directory: invocations inside other directories do not block it.
C3_MutualExclusion ==
    /\ \A d \in Dirs : Cardinality(Inside(d)) <= 1
    /\ \A i \in Procs : pc[i] = "wait_lock" =>
            (ENABLED AcquireLock(i) <=> Inside(sh[i].UNPACK_TO) = {})

\* two invocations unpack into two different directories at the same time
C3_Witness ==
    \E i, j \in Procs :
        /\ pc[i] = "extract" /\ pc[j] = "relocate"
        /\ sh[i].UNPACK_TO # sh[j].UNPACK_TO
        /\ {sh[i].UNPACK_TO, sh[j].UNPACK_TO} \subseteq ExplicitDirs

\* C4: for an explicit target directory at most one invocation ever writes
\* the sentinel; nobody is in Extract, Relocate or WriteMarker on a directory
\* that holds the sentinel; an invocation that finds the sentinel under the
\* lock goes straight on without extracting, and a directory holding the
\* sentinel keeps its contents.
C4_AtMostOnceUnpack ==
    /\ [](\A d \in ExplicitDirs :
            Cardinality({i \in Procs : target[i] = d /\ "marker" \in did[i]}) <= 1)
    /\ [](\A i \in Procs :
            pc[i] \in {"extract", "relocate", "write_marker"} => ~marker[sh[i].UNPACK_TO])
    /\ [][\A i \in Procs : pc[i] = "check_marker" /\ marker[sh[i].UNPACK_TO] =>
            /\ pc'[i] \in {"check_marker", "activate", "exited"}
            /\ did'[i] = did[i]
            /\ content'[target[i]] = content[target[i]]]_vars
    /\ [][\A d \in ExplicitDirs : marker[d] => content'[d] = content[d]]_vars

\* one invocation unpacked into an explicit directory and another took the
\* lock afterwards, found the sentinel and activated without extracting
C4_Witness ==
    \E i, j \in Procs :
        /\ target[i] \in ExplicitDirs /\ target[j] = target[i]
        /\ "marker" \in did[i]
        /\ {"lock", "activate"} \subseteq did[j]
        /\ "extract" \notin did[j]

\* C5 as stated: whatever its environment reference, an invocation in
\* Activate, ApplyHooks or Execute on D sees D's sentinel and nobody is in
\* Extract or Relocate on D.
C5_ReadersSafe ==
    \A i \in Procs : pc[i] \in ReaderPcs =>
        /\ marker[sh[i].UNPACK_TO]
        /\ \A j \in Procs \ {i} :
            ~(pc[j] \in {"extract", "relocate"} /\ sh[j].UNPACK_TO = sh[i].UNPACK_TO)

\* C5 amended: the same for the invocations whose environment reference is an
\* archive, the ones that went through the lock and the sentinel check.
C5_ArchiveReadersSafe ==
    \A i \in Procs : pc[i] \in ReaderPcs /\ ~sh[i].ENV_NAME_IS_DIR =>
        /\ marker[sh[i].UNPACK_TO]
        /\ \A j \in Procs \ {i} :
            ~(pc[j] \in {"extract", "relocate"} /\ sh[j].UNPACK_TO = sh[i].UNPACK_TO)

\* an archive-mode invocation runs its command without the lock while
\* another invocation holds the lock of the same directory
C5_Witness ==
    \E i, j \in Procs :
        /\ pc[i] = "execute" /\ ~sh[i].ENV_NAME_IS_DIR
        /\ pc[j] = "check_marker" /\ sh[j].UNPACK_TO = sh[i].UNPACK_TO

\* C6: the lock of a directory is held only by an invocation that is inside
\* the CheckMarker/Extract/Relocate/WriteMarker sequence of that directory;
\* whichever way an invocation leaves the sequence, the lock is free in the
\* state it leaves it in; and when nobody is inside, a waiter can take it.
C6_LockReleased ==
    /\ [](\A d \in Dirs : lock[d] = Inside(d))
    /\ [][\A i \in Procs : pc[i] \in LockedPcs /\ pc'[i] \notin LockedPcs =>
            lock'[target[i]] = {}]_vars
    /\ [](\A i \in Procs : pc[i] = "wait_lock" /\ Inside(sh[i].UNPACK_TO) = {} =>
            ENABLED AcquireLock(i))

\* after one invocation failed in Extract, another one holds the lock of the
\* same directory
C6_Witness ==
    \E i, j \in Procs :
        /\ reason[i] = "extract"
        /\ pc[j] \in LockedPcs /\ target[j] = target[i]
        /\ lock[target[j]] = {j}

\* C7: an invocation that fails in Extract or Relocate, or is killed before
\* the sentinel is written, ends there with the sentinel absent and the lock
\* free; no invocation goes back to flock or to tar once it has been there;
\* an invocation that finds no sentinel under the lock starts tar whatever
\* the directory already holds, and a finished tar leaves the full archive.
C7_FailedUnpackRetryable ==
    /\ [][\A i \in Procs :
            /\ pc[i] \in {"extract", "relocate", "write_marker"}
            /\ reason'[i] \in {"extract", "relocate", "killed"}
            => /\ pc'[i] = "exited"
               /\ ~marker'[target[i]]
               /\ lock'[target[i]] = {}]_vars
    /\ [][\A i \in Procs :
            /\ "lock" \in did[i] => pc'[i] # "wait_lock"
            /\ "extract" \in did[i] /\ pc[i] # "extract" => pc'[i] # "extract"]_vars
    /\ [][\A i \in Procs :
            /\ pc[i] = "check_marker" /\ ~marker[sh[i].UNPACK_TO] /\ pc'[i] # pc[i]
                => pc'[i] \in {"extract", "exited"}
            /\ pc[i] = "extract" /\ pc'[i] = "relocate"
                => content'[target[i]] = "extracted"]_vars
    /\ [](\A i \in Procs : reason[i] \in {"extract", "relocate"} =>
            pc[i] = "exited" /\ "marker" \notin did[i] /\ exitCode[i] # 0)

\* an invocation failed in Extract or Relocate on an explicit directory, and
\* a later one extracted, relocated and wrote the sentinel there
C7_Witness ==
    \E i, j \in Procs :
        /\ reason[i] \in {"extract", "relocate"}
        /\ target[i] \in ExplicitDirs /\ target[j] = target[i]
        /\ j \in Unpackers
        /\ marker[target[j]]

\* C8: the lock-timeout error comes from an invocation that is waiting, at
\* the moment its wait has lasted exactly its lock-wait, with the lock still
\* held by another; no waiter waits longer than its lock-wait; an invocation
\* that ended that way has done nothing else; and an invocation that has the
\* lock never ends with the lock-timeout error.
C8_LockTimeout ==
    /\ [][\A i \in Procs : reason'[i] = "locktimeout" /\ reason[i] # "locktimeout" =>
            /\ pc[i] = "wait_lock"
            /\ elapsed[i] = sh[i].LOCK_WAIT
            /\ lock[target[i]] # {} /\ i \notin lock[target[i]]
            /\ exitCode'[i] = 1]_vars
    /\ [](\A i \in Procs : pc[i] = "wait_lock" => elapsed[i] <= sh[i].LOCK_WAIT)
    /\ [](\A i \in Procs : reason[i] = "locktimeout" =>
            pc[i] = "exited" /\ did[i] = {} /\ ranOn[i] = "none" /\ cmdStatus[i] = -1)
    /\ [][\A i \in Procs : pc[i] \in LockedPcs => reason'[i] # "locktimeout"]_vars

\* a waiter gave up after a wait of at least one time unit while the holder,
\* which has held the lock for longer than its own lock-wait, went on to
\* the point of writing the sentinel
C8_Witness ==
    \E i, j \in Procs :
        /\ reason[j] = "locktimeout" /\ elapsed[j] >= 1
        /\ target[j] = target[i]
        /\ pc[i] = "write_marker"
        /\ elapsed[i] > sh[i].LOCK_WAIT

FailureClasses == {"badargs", "locktimeout", "extract", "relocate", "activate"}

C10_ExitCodeOfCommand ==
    \A i \in Procs :
        /\ reason[i] = "done" =>
            exitCode[i] = cmdStatus[i] /\ cmdStatus[i] \in CmdCodes
        /\ cmdStatus[i] # -1 => reason[i] = "done" /\ "activate" \in did[i]

\* one command ended 0 and another ended 3, one of them in a directory
\* environment and one in an unpacked archive
C10_Witness ==
    \E i, j \in Procs :
        /\ reason[i] = "done" /\ exitCode[i] = 0 /\ "lock" \in did[i]
        /\ reason[j] = "done" /\ exitCode[j] = 3 /\ "lock" \notin did[j]

\* C11: whichever exit path an invocation takes (bad arguments, target is a
\* file, lock timeout, extraction, relocation or activation failure, command
\* completion), once it has exited its temporary script file is gone and the
\* temporary unpack directory it made, if it made one, is gone with its marker.
ExitPaths == {"badargs", "targetfile", "locktimeout", "extract", "relocate",
              "activate", "done"}

C11_CleanupOnExit ==
    \A i \in Procs :
        pc[i] = "exited" /\ reason[i] \in ExitPaths =>
            /\ ~UNTAR_SCRIPT[i]
            /\ content[TmpDir(i)] = "absent"
            /\ ~marker[TmpDir(i)]

\* an invocation that unpacked into its own temporary directory has exited
\* after a failed extraction, the other after its command ran
C11_Witness ==
    \E i, j \in Procs :
        /\ pc[i] = "exited" /\ reason[i] = "extract" /\ target[i] = TmpDir(i)
        /\ pc[j] = "exited" /\ reason[j] = "done" /\ target[j] = TmpDir(j)

\* C12: an invocation whose environment reference is a directory uses that
\* directory as its target whatever --unpack-to said, and goes from there to
\* activation: it never holds the lock, never looks at or writes the marker,
\* never extracts and never relocates.
C12_DirectoryMode ==
    \A i \in Procs :
        sh[i].ENV_NAME_IS_DIR =>
            /\ sh[i].UNPACK_TO = sh[i].ENV_NAME
            /\ target[i] = sh[i].ENV_NAME
            /\ ~sh[i].UNPACK_IS_TMP
            /\ pc[i] \in ReaderPcs
            /\ did[i] \cap {"lock", "extract", "relocate", "marker"} = {}
            /\ \A d \in Dirs : i \notin lock[d]

\* a directory-mode invocation is about to run its command in a directory
\* that carries no marker
C12_Witness ==
    \E i \in Procs :
        /\ sh[i].ENV_NAME_IS_DIR
        /\ pc[i] = "execute"
        /\ "activate" \in did[i]
        /\ ~marker[sh[i].UNPACK_TO]

\* C13: when the unpack target is an existing regular file, the step that
\* resolves the target ends the invocation with a non-zero status: no lock is
\* taken, nothing is extracted, activated or run, no script file or directory
\* is made, and nothing in the file system is written.
C13_TargetIsFile ==
    [][\A i \in Procs :
          (/\ pc[i] = "acquire_target"
           /\ ~IsDirectory(sh[i].ENV_NAME)
           /\ sh[i].UNPACK_TO = FilePath
           /\ pc'[i] # pc[i])
          => /\ pc'[i] = "exited"
             /\ exitCode'[i] # 0
             /\ did'[i] = {}
             /\ cmdStatus'[i] = -1
             /\ target'[i] = NoPath
             /\ ~UNTAR_SCRIPT'[i]
             /\ content' = content /\ marker' = marker /\ lock' = lock]_vars

C13_Witness ==
    \E i \in Procs :
        /\ reason[i] = "targetfile"
        /\ exitCode[i] = 1
        /\ did[i] = {}

\* C22: an invocation moves through its phases in one order only (lock,
\* sentinel test, extract, relocate, sentinel write, lock release, activate,
\* hooks, command), skipping phases but never going back.  Relocation starts
\* only from a tar run that succeeded, the sentinel is written only from a
\* relocation that succeeded, activation starts only without the lock, and the
\* command starts only after a successful activation.
C22_PhaseOrder ==
    [][LET Phases == <<"start", "acquire_target", "wait_lock", "check_marker",
                       "extract", "relocate", "write_marker", "activate",
                       "hooks", "execute", "exited">>
           At(p) == CHOOSE k \in DOMAIN Phases : Phases[k] = p
       IN  \A i \in Procs :
             /\ pc'[i] # pc[i] =>
                 /\ At(pc'[i]) > At(pc[i])
                 /\ pc'[i] = "check_marker" =>
                       pc[i] = "wait_lock" /\ i \in lock'[target[i]]
                 /\ pc'[i] = "extract" => pc[i] = "check_marker"
                 /\ pc'[i] = "relocate" =>
                       pc[i] = "extract" /\ content'[target[i]] = "extracted"
                 /\ pc'[i] = "write_marker" =>
                       pc[i] = "relocate" /\ content'[target[i]] = "relocated"
                 /\ pc'[i] = "activate" =>
                       /\ pc[i] \in {"acquire_target", "wait_lock"} \cup LockedPcs
                       /\ \A d \in Dirs : i \notin lock'[d]
                       /\ pc[i] = "acquire_target" <=> sh'[i].ENV_NAME_IS_DIR
                 /\ pc'[i] = "hooks" =>
                       pc[i] = "activate" /\ "activate" \in did'[i]
                 /\ pc'[i] = "execute" =>
                       pc[i] = "hooks" /\ "activate" \in did[i]
             /\ "marker" \in did'[i] \ did[i] =>
                   /\ pc[i] = "write_marker"
                   /\ i \in lock[target[i]]
                   /\ content[target[i]] = "relocated"
             /\ "execute" \in did'[i] \ did[i] =>
                   pc[i] = "execute" /\ "activate" \in did[i]]_vars

\* an archive-mode invocation that went through every phase and ran its
\* command
C22_Witness ==
    \E i \in Procs :
        /\ reason[i] = "done"
        /\ did[i] = {"lock", "extract", "relocate", "marker", "activate",
                     "hooks", "execute"}
        /\ marker[target[i]]

\* C23: an invocation whose activation does not succeed leaves the activate
\* step for its exit only, with a non-zero exit code, and in that run the hook
\* script is not sourced and the command is not started; so hooks and command
\* are only ever seen in runs whose activation succeeded.
C23_ActivationFatal ==
    /\ [](\A i \in Procs :
            /\ reason[i] = "activate" =>
                 /\ pc[i] = "exited"
                 /\ exitCode[i] = 1
                 /\ did[i] \cap {"activate", "hooks", "execute"} = {}
                 /\ hookArg[i] = NoPath
                 /\ cmdStatus[i] = -1 /\ ranOn[i] = "none"
            /\ (pc[i] \in {"hooks", "execute"} \/ did[i] \cap {"hooks", "execute"} # {}
                  \/ hookArg[i] # NoPath \/ cmdStatus[i] # -1)
                 => "activate" \in did[i])
    /\ [][\A i \in Procs :
            (pc[i] = "activate" /\ pc'[i] # pc[i] /\ "activate" \notin did'[i])
            => /\ pc'[i] = "exited"
               /\ exitCode'[i] # 0
               /\ hookArg'[i] = NoPath
               /\ cmdStatus'[i] = -1]_vars

\* an activation failed on an unpacked, relocated environment whose sentinel
\* is written
C23_Witness ==
    \E i \in Procs :
        /\ reason[i] = "activate"
        /\ exitCode[i] = 1
        /\ target[i] \in Dirs
        /\ marker[target[i]] /\ content[target[i]] = "relocated"

(* ====================== properties of the packager ===================== *)
\* what the fetches of a specification file put into the temporary directory
GitFiles == {File(poncho_spec.git[k].name, "", "dir", "clone") :
                k \in {j \in DOMAIN poncho_spec.git : poncho_spec.git[j].remote}}
HttpFiles == UNION {http_files(poncho_spec.http[k]) :
                k \in {j \in DOMAIN poncho_spec.http : poncho_spec.http[j].url}}

\* C14: an archive has been written only if the specification was synthesized,
\* every git entry and every http entry was gone through and fetched, the
\* environment was created and every pip_local package was installed; a run
\* that failed at any of these steps has written no archive.
C14_ArchiveOnlyAfterAll ==
    /\ output.written =>
          /\ ppc = "done"
          /\ conda_spec \in create_conda_spec(poncho_spec, local_pip_pkgs)
          /\ fetched.git = Len(poncho_spec.git)
          /\ fetched.http = Len(poncho_spec.http)
          /\ GitFiles \cup HttpFiles \subseteq output.files
          /\ File("conda-meta", "", "dir", "") \in output.files
          /\ installed = DOMAIN conda_spec.pip_local
    /\ ppc = "failed" => ~output.written

\* a run failed at the last step that can fail, the installation of the
\* second of two local packages, and left no archive
C14_Witness ==
    /\ ppc = "failed"
    /\ ~output.written
    /\ fetched.git > 0 /\ fetched.http > 0
    /\ installed # {}
    /\ installed # DOMAIN conda_spec.pip_local

\* the specification has been synthesized
Produced == ppc \notin {"idle", "spec", "failed"}
\* bare names of the dependencies the specification file declares
Declared == {only_name(d) : d \in Range(poncho_spec.packages) \cup Range(poncho_spec.pip)}
Names(deps) == {only_name(deps[k]) : k \in DOMAIN deps}

\* C15: after synthesis pip_local holds exactly the editable installs whose
\* name is the bare name of a declared conda or pip dependency, each with its
\* location; those dependencies are gone from dependencies and from pip and
\* every other one is still there, so no name of pip_local is a name in
\* dependencies or pip; an editable install nobody declared is left out, and
\* whether synthesis fails does not depend on the editable installs.
C15_PipLocal ==
    /\ Produced =>
          /\ DOMAIN conda_spec.pip_local = Declared \cap DOMAIN local_pip_pkgs
          /\ \A n \in DOMAIN conda_spec.pip_local :
                conda_spec.pip_local[n] = local_pip_pkgs[n]
          /\ Names(conda_spec.dependencies) \cap DOMAIN conda_spec.pip_local = {}
          /\ Names(conda_spec.pip) \cap DOMAIN conda_spec.pip_local = {}
          /\ Range(conda_spec.dependencies) =
                {d \in Range(poncho_spec.packages) : only_name(d) \notin DOMAIN local_pip_pkgs}
          /\ Range(conda_spec.pip) =
                {d \in Range(poncho_spec.pip) : only_name(d) \notin DOMAIN local_pip_pkgs}
    /\ ppc = "failed" => ~poncho_spec.conda

\* one editable install was declared, with a version, and moved to pip_local;
\* another was not declared and is left out; other dependencies remain
C15_Witness ==
    /\ Produced
    /\ DOMAIN conda_spec.pip_local # {}
    /\ DOMAIN local_pip_pkgs \ DOMAIN conda_spec.pip_local # {}
    /\ \E d \in Range(poncho_spec.packages) \cup Range(poncho_spec.pip) :
          d # only_name(d) /\ only_name(d) \in DOMAIN conda_spec.pip_local
    /\ conda_spec.dependencies # <<>>

\* C16 as claimed: in a synthesized specification no two entries of
\* dependencies have the same package name, and no two entries of pip.
OneEntryPerName(deps) ==
    \A j, k \in DOMAIN deps : j # k => only_name(deps[j]) # only_name(deps[k])

C16_NoDuplicateNames ==
    Produced => /\ OneEntryPerName(conda_spec.dependencies)
                /\ OneEntryPerName(conda_spec.pip)

\* C16 as the code has it: no constraint string occurs twice in dependencies
\* or in pip, however often the specification file lists it; two different
\* constraint strings of one package are both kept.
C16_NoDuplicateStrings ==
    Produced =>
        /\ NoRepeat(conda_spec.dependencies)
        /\ NoRepeat(conda_spec.pip)
        /\ \A d \in Range(poncho_spec.packages) :
              only_name(d) \notin DOMAIN local_pip_pkgs =>
                  d \in Range(conda_spec.dependencies)

\* the specification file lists one constraint string twice
C16_Witness ==
    /\ Produced
    /\ \E j, k \in DOMAIN poncho_spec.packages :
          j # k /\ poncho_spec.packages[j] = poncho_spec.packages[k]
    /\ Len(conda_spec.dependencies) = 1

\* everything in the temporary directory that carries the name n
FilesOf(n) == {f \in env_dir : f.path[1] = n}
\* http entries with a url that http_data has gone through
Downloaded == {k \in 1..fetched.http : poncho_spec.http[k].url}

\* C17: after an http entry is fetched the temporary directory holds, under
\* the entry's name: for tar+gzip and for tar, a directory with the extracted
\* content and nothing else, the downloaded archive being discarded; for gzip
\* alone, the decompressed file and no directory; for neither, the file as it
\* was downloaded.
C17_FetchVariants ==
    ppc \in {"http", "env_create", "pip_local"} =>
        \A k \in Downloaded :
            LET e == poncho_spec.http[k]
            IN  FilesOf(e.name) =
                    CASE e.type = "tar" -> {File(e.name, "", "dir", "tree")}
                      [] e.type # "tar" /\ e.compression = "gzip" ->
                            {File(e.name, "", "file", "gunzipped")}
                      [] OTHER -> {File(e.name, "", "file", "raw")}

\* the export lines of a list of entries, in the order of the list
Lines(entries) == [k \in DOMAIN entries |-> ExportLine(entries[k].name)]
IsPrefix(a, b) == Len(a) <= Len(b) /\ SubSeq(b, 1, Len(a)) = a
HasRemote(e) == e.remote
HasUrl(e) == e.url
\* the fetch phase is over and the temporary directory still stands
FetchesDone == ppc \in {"env_create", "pip_local"}
\* a step of packaging that does not end the run
Packaging == ppc \in {"git", "http", "env_create", "pip_local"}
               /\ ppc' \in {"git", "http", "env_create", "pip_local"}

\* C18 as claimed: after a successful fetch phase the hook script holds one
\* line `export <name>=$1/<name>` for every git entry, in the declared order,
\* then one for every http entry, in the declared order, and nothing else;
\* while packaging runs, lines are only ever appended.
C18_OneLinePerEntry ==
    /\ [](FetchesDone =>
            set_env = Lines(poncho_spec.git) \o Lines(poncho_spec.http))
    /\ [][Packaging => IsPrefix(set_env, set_env')]_vars

\* C18 as the code has it: the lines are those of the git entries that name a
\* remote and of the http entries that name a url; an entry without one
\* leaves no line.  The archive carries the script as it then stands.
C18_OneLinePerFetchedEntry ==
    /\ [](FetchesDone =>
            set_env = Lines(SelectSeq(poncho_spec.git, HasRemote))
                        \o Lines(SelectSeq(poncho_spec.http, HasUrl)))
    /\ [](output.written =>
            output.set_env = Lines(SelectSeq(poncho_spec.git, HasRemote))
                               \o Lines(SelectSeq(poncho_spec.http, HasUrl)))
    /\ [][Packaging => IsPrefix(set_env, set_env')]_vars

\* two git entries and two http entries were gone through; the script holds
\* a git line followed by an http line, and an entry was passed over
C18_Witness ==
    /\ FetchesDone
    /\ Len(poncho_spec.git) = 2 /\ Len(poncho_spec.http) = 2
    /\ Len(set_env) \in {2, 3}
    /\ \E e \in Range(poncho_spec.git) : e.remote /\ set_env[1] = ExportLine(e.name)
    /\ \E e \in Range(poncho_spec.http) : e.url /\ set_env[Len(set_env)] = ExportLine(e.name)

\* C27: conda-unpack is started on a directory only by the step in which tar
\* succeeded on it, by the invocation that ran tar, which holds the lock
\* before and after that step; an invocation starts it at most once; it runs,
\* and a directory is being or has been relocated, only under the lock of
\* the invocation that extracted and never when the sentinel is there.
C27_RelocateOncePerExtract ==
    /\ [](\A i \in Procs : pc[i] = "relocate" =>
            /\ i \in lock[target[i]]
            /\ ~marker[target[i]]
            /\ {"extract", "relocate"} \subseteq did[i]
            /\ content[target[i]] \in {"extracted", "relocating"})
    /\ [][\A i \in Procs :
            /\ pc'[i] = "relocate" /\ pc[i] # "relocate" =>
                 /\ pc[i] = "extract"
                 /\ "relocate" \notin did[i]
                 /\ content'[target[i]] = "extracted"
                 /\ i \in lock[target[i]] /\ i \in lock'[target[i]]
                 /\ ~marker[target[i]]
            /\ "relocate" \in did'[i] \ did[i] => pc'[i] = "relocate"]_vars
    /\ [][\A d \in Dirs :
            content'[d] # content[d] /\ content'[d] \in {"relocating", "relocated"} =>
                 \E i \in Procs : /\ pc[i] = "relocate" /\ target[i] = d
                                  /\ lock[d] = {i}
                                  /\ ~marker[d]]_vars

\* conda-unpack failed for one invocation; another then took the lock,
\* extracted again, relocated and wrote the sentinel
C27_Witness ==
    \E i, j \in Procs :
        /\ target[i] \in ExplicitDirs /\ target[j] = target[i]
        /\ reason[j] = "relocate" /\ "relocate" \in did[j]
        /\ {"extract", "relocate", "marker"} \subseteq did[i]
        /\ marker[target[i]]

\* C28: a directory goes away only when the invocation that made it with
\* mktemp -d exits; a directory the caller named, as unpack target or as
\* environment reference, is never removed, and once it holds the sentinel it
\* holds it, and its contents, in every later state, however invocations end.
C28_MarkerMonotonic ==
    [][/\ \A d \in Dirs :
            content[d] # "absent" /\ content'[d] = "absent" =>
                \E i \in Procs : /\ d = TmpDir(i) /\ target[i] = d
                                 /\ pc[i] # "exited" /\ pc'[i] = "exited"
       /\ \A d \in ExplicitDirs :
            /\ content[d] # "absent" => content'[d] # "absent"
            /\ marker[d] => marker'[d] /\ content'[d] = "relocated"]_vars

\* an explicit target holds the sentinel one invocation wrote; a later
\* invocation on it was then terminated by a signal and ran its exit trap
C28_Witness ==
    \E i, j \in Procs :
        /\ target[i] \in ExplicitDirs /\ target[j] = target[i]
        /\ "marker" \in did[i]
        /\ "activate" \in did[j] /\ "marker" \notin did[j]
        /\ reason[j] = "killed" /\ exitCode[j] = 143
        /\ marker[target[i]] /\ content[target[i]] = "relocated"

(* ================= properties of packager and runner =================== *)
\* C24: the archive holds the hook script exactly when something was fetched
\* at build time.  An invocation that unpacks the archive into T (or finds it
\* unpacked there) and reaches its command has sourced the script after a
\* successful activation and before the command, with T as its argument, so
\* that for every fetched entry n the command sees n = T/n; when the archive
\* holds no script, nothing is sourced and the command runs all the same.
\* No invocation has sourced anything before its activation is over.
C24_HookRoundTrip ==
    LET names == {poncho_spec.git[k].name :
                     k \in {m \in DOMAIN poncho_spec.git : poncho_spec.git[m].remote}}
                 \cup {poncho_spec.http[k].name :
                     k \in {m \in DOMAIN poncho_spec.http : poncho_spec.http[m].url}}
    IN  /\ output.written =>
              /\ bundled <=> File("poncho", "", "dir", "") \in output.files
              /\ bundled <=> names # {}
        /\ \A i \in Procs :
              /\ pc[i] \notin {"execute", "exited"} => hookArg[i] = NoPath
              /\ (pc[i] = "execute" \/ "execute" \in did[i]) =>
                    /\ "activate" \in did[i]
                    /\ target[i] \in Dirs
                    /\ IF bundled
                       THEN /\ "hooks" \in did[i]
                            /\ hookArg[i] = target[i]
                            /\ LET environ == source_set_env(output.set_env, hookArg[i])
                               IN  /\ DOMAIN environ = names
                                   /\ \A n \in names :
                                        environ[n] = << <<target[i]>>, <<"/">>, <<n>> >>
                       ELSE /\ "hooks" \notin did[i]
                            /\ hookArg[i] = NoPath
              /\ "execute" \in did[i] => reason[i] = "done" /\ cmdStatus[i] \in CmdCodes

\* a git clone x and a download y were packed; an invocation unpacked the
\* archive into the explicit target, another into a temporary one, and both
\* ran their commands with the hook applied to their own target
C24_Witness ==
    /\ Len(output.set_env) = 2
    /\ output.set_env[1].export # output.set_env[2].export
    /\ \E e \in Range(poncho_spec.git) : e.remote
    /\ \E i, j \in Procs :
          /\ "execute" \in did[i] /\ hookArg[i] = SharedTarget
          /\ "execute" \in did[j] /\ hookArg[j] = TmpDir(j)

(* ====================== properties of the scanner ====================== *)
IsRelative(n) == n.kind = "ImportFrom" /\ n.level > 0
\* a relative from-import is the node or lies somewhere below it
RECURSIVE HasRelative(_)
HasRelative(n) == IsRelative(n) \/ \E k \in DOMAIN n.body : HasRelative(n.body[k])
\* the routines of that name in a unit, and the one the scan takes
Routines(module, f) ==
    {k \in DOMAIN walk(<<module>>) : /\ walk(<<module>>)[k].kind = "FunctionDef"
                                     /\ walk(<<module>>)[k].name = f}
FirstRoutine(module, f) ==
    walk(<<module>>)[CHOOSE k \in Routines(module, f) :
                        \A m \in Routines(module, f) : k <= m]
\* the unit in code_ast has been through its scan
Scanned == code_ast # NoCode /\ apc # "analyze"
UnsupportedImport == apc = "failed" /\ raised = "ImportError"

\* C20 as claimed: a unit that holds a relative from-import anywhere makes
\* the scan end with the unsupported-import error, whatever the scope.
C20_RelativeAlwaysRaises ==
    Scanned /\ HasRelative(code_ast) => UnsupportedImport

\* C20 as the code has it: the scan ends with the unsupported-import error
\* exactly when the part of the unit the scope visits holds a relative
\* from-import: the whole unit under whole-program, the statements of the
\* module body themselves under top-level-only, the first routine of the
\* given name under named-routine.
C20_RelativeRaisesWhereVisited ==
    Scanned =>
        (UnsupportedImport <=>
            IF args.toplevel
            THEN \E k \in DOMAIN code_ast.body : IsRelative(code_ast.body[k])
            ELSE IF args.function # NoFunction
            THEN /\ Routines(code_ast, args.function) # {}
                 /\ HasRelative(FirstRoutine(code_ast, args.function))
            ELSE HasRelative(code_ast))

\* a named-routine scan ended on a relative from-import that is no statement
\* of the module body
C20_Witness ==
    /\ Scanned
    /\ UnsupportedImport
    /\ args.function = "f"
    /\ \A k \in DOMAIN code_ast.body : ~IsRelative(code_ast.body[k])

\* C21 as claimed: under the named-routine scope, a unit that defines no
\* routine of the given name adds nothing to the identifier list and the scan
\* goes on to the next unit (or to the export) without raising an error.
C21_MissingRoutineContinues ==
    [][apc = "analyze" /\ ~args.toplevel /\ args.function # NoFunction
         /\ Routines(code_ast, args.function) = {}
       => /\ apc' \in {"parse", "export"}
          /\ imports' = imports
          /\ raised' = raised]_vars

(* ====================== properties of the resolver ===================== *)
\* what each identifier, each extra package and the two defaults bring, taken
\* on their own
Brought ==
    {search_pkg(overrides, conda_env, pip_env, {}, {}, p) : p \in Range(imports)}
      \cup {choose_dep(conda_env, pip_env, {}, {}, p, TRUE) : p \in extra}
Optional ==
    {choose_dep(conda_env, pip_env, {}, {}, p, FALSE) : p \in {PkgPython, PkgPip}}
Unresolvable == \E r \in Brought : r.raised # "none"
\* entries of a list or set of constraint strings that belong to package p
Of(p, S) == {a \in S : StartsWith(a, p \o <<"=">>)}
Installed(p) == Of(p, Range(conda_env) \cup Range(pip_env))

\* C19: for given listings, file index and overrides the outcome does not
\* depend on the order in which the identifiers are taken: the run fails
\* exactly when some identifier or extra package cannot be resolved, and
\* otherwise ends with the same two lists.  Searching an identifier that has
\* an override and is no built-in module adds the installed entry of the
\* override's package and nothing else, whatever package carries the
\* identifier's own name and whatever the file index says; when the
\* override's package is not installed the search fails, it does not fall
\* back.
C19_OverrideWins ==
    /\ [](apc = "done" =>
            /\ ~Unresolvable
            /\ conda_pkgs = sorted(UNION {r.conda_pkgs : r \in Brought \cup Optional})
            /\ pip_pkgs = sorted(UNION {r.pip_pkgs : r \in Brought \cup Optional}))
    /\ [](apc = "failed" => Unresolvable)
    /\ [][\A pkg \in todo.search \ todo'.search :
            pkg \in DOMAIN overrides /\ pkg \notin Builtins =>
                LET new == (conda_pkgs' \cup pip_pkgs') \ (conda_pkgs \cup pip_pkgs)
                IN  /\ new \subseteq Installed(overrides[pkg])
                    /\ IF Installed(overrides[pkg]) # {}
                       THEN /\ apc' = "search"
                            /\ Of(overrides[pkg], conda_pkgs' \cup pip_pkgs') # {}
                       ELSE /\ apc' = "failed"
                            /\ raised' = "ImportError"
                            /\ new = {}]_vars

\* identifier a, overridden to package x, has been searched: x's entry was
\* taken although a package named a is installed and the file index gives a
\* to package ab, also installed
C19_Witness ==
    /\ apc = "search"
    /\ IdA \in Range(imports) /\ IdA \notin todo.search
    /\ IdA \in DOMAIN overrides /\ overrides[IdA] = PkgX
    /\ Installed(IdA) # {}
    /\ IdA \in DOMAIN PKG_MAP /\ Installed(PKG_MAP[IdA]) # {}
    /\ Of(PkgX, conda_pkgs \cup pip_pkgs) # {}
    /\ Of(IdA, conda_pkgs \cup pip_pkgs) = {}
    /\ Of(PkgAB, conda_pkgs \cup pip_pkgs) = {}

\* C25: one identifier is resolved by the first rule that applies.  (1) A
\* built-in module adds nothing.  (2) An identifier with an override takes the
\* override's package.  (3) Else a package of the identifier's own name is
\* taken.  (4) Else the package owning the module's file is taken.  (5) Else
\* the search fails with the error that names the identifier.  A package is
\* taken from the conda listing when it is there, from the pip listing
\* otherwise.  The defaults python and pip are added when listed and passed
\* over without an error when not.
C25_ResolutionOrder ==
    [][LET Conda(n) == Of(n, Range(conda_env))
           Pip(n) == Of(n, Range(pip_env))
           Takes(n) == /\ apc' = "search" /\ raised' = "none"
                       /\ IF Conda(n) # {}
                          THEN /\ \E a \in Conda(n) : conda_pkgs' = conda_pkgs \cup {a}
                               /\ pip_pkgs' = pip_pkgs
                          ELSE /\ \E a \in Pip(n) : pip_pkgs' = pip_pkgs \cup {a}
                               /\ conda_pkgs' = conda_pkgs
           Fails == /\ apc' = "failed" /\ raised' = "ImportError"
                    /\ conda_pkgs' = conda_pkgs /\ pip_pkgs' = pip_pkgs
           Owned(p) == p \in importable /\ p \in DOMAIN PKG_MAP
       IN  /\ \A p \in todo.search \ todo'.search :
                IF p \in Builtins
                THEN /\ apc' = "search" /\ raised' = "none"
                     /\ conda_pkgs' = conda_pkgs /\ pip_pkgs' = pip_pkgs
                ELSE IF p \in DOMAIN overrides
                THEN IF Installed(overrides[p]) # {} THEN Takes(overrides[p]) ELSE Fails
                ELSE IF Installed(p) # {} THEN Takes(p)
                ELSE IF Owned(p) /\ Installed(PKG_MAP[p]) # {} THEN Takes(PKG_MAP[p])
                ELSE Fails /\ unmatched(overrides, p) = p
           /\ apc = "search" /\ todo.search = {} /\ todo.choose = {} =>
                /\ apc' = "done" /\ raised' = "none"
                /\ Range(conda_pkgs') =
                     conda_pkgs \cup Conda(PkgPython) \cup Conda(PkgPip)
                /\ Range(pip_pkgs') =
                     pip_pkgs \cup (IF Conda(PkgPython) = {} THEN Pip(PkgPython) ELSE {})
                              \cup (IF Conda(PkgPip) = {} THEN Pip(PkgPip) ELSE {})]_vars

\* the run is over: b, which is no package's name, came out as ab, the owner
\* of its file; a, listed by conda and by pip, came out as conda's entry; the
\* built-in sys added nothing, and neither did pip, which is not installed
C25_Witness ==
    /\ apc = "done"
    /\ Range(imports) = {IdA, IdB, IdSys}
    /\ overrides = <<>>
    /\ Of(IdA, Range(conda_env)) # {} /\ Of(IdA, Range(pip_env)) # {}
    /\ Installed(PkgPip) = {}
    /\ Range(conda_pkgs) = Of(IdA, Range(conda_env)) \cup Of(PkgAB, Range(conda_env))
    /\ Of(PkgAB, Range(conda_pkgs)) # {}
    /\ pip_pkgs = <<>>

\* C26: at every point of the resolution, and in the two lists it ends with,
\* every resolved conda string is an entry of the conda listing, every
\* resolved pip string is an entry of the pip listing, and no package has an
\* entry in both: the names (the part before the first `=`) of the conda
\* strings and of the pip strings are disjoint.
C26_DisjointResolved ==
    LET conda == IF apc = "done" THEN Range(conda_pkgs) ELSE conda_pkgs
        pip == IF apc = "done" THEN Range(pip_pkgs) ELSE pip_pkgs
        Name(a) == SubSeq(a, 1, (CHOOSE k \in DOMAIN a :
                                    a[k] = "=" /\ \A m \in 1..(k - 1) : a[m] # "=") - 1)
    IN  /\ conda \subseteq Range(conda_env)
        /\ pip \subseteq Range(pip_env)
        /\ {Name(a) : a \in conda} \cap {Name(b) : b \in pip} = {}
        /\ apc = "done" => /\ Len(conda_pkgs) = Cardinality(conda)
                           /\ Len(pip_pkgs) = Cardinality(pip)

\* a and x are listed by conda and by pip; a was imported and x asked for as
\* an extra package; both came out as conda's entries, and the pip list holds
\* nothing of them
C26_Witness ==
    /\ apc = "done"
    /\ IdA \in Range(imports) /\ PkgX \in extra /\ overrides = <<>>
    /\ Of(IdA, Range(pip_env)) # {} /\ Of(PkgX, Range(pip_env)) # {}
    /\ Of(IdA, Range(conda_pkgs)) # {} /\ Of(PkgX, Range(conda_pkgs)) # {}
    /\ pip_pkgs = <<>>

TypeOK ==
    /\ pc \in [Procs -> {"start", "acquire_target", "wait_lock", "activate", "hooks",
                          "execute", "exited"} \cup LockedPcs]
    /\ content \in [Dirs -> Contents]
    /\ marker \in [Dirs -> BOOLEAN]
    /\ lock \in [Dirs -> SUBSET Procs]
    /\ elapsed \in [Procs -> 0..MaxTime]

====
